---- MODULE Spec2Model ----
(***************************************************************************)
(* Secure-PDF-Viewer: access-control and delivery protocol.                *)
(*                                                                         *)
(*   - the in-memory rate limiter (lib/services/rate-limiter.ts)           *)
(*   - the nonce service          (lib/services/nonce.ts)                  *)
(*   - the access log             (lib/services/logger.ts)                 *)
(*   - the decrypted-document cache (lib/document/cache.ts)                *)
(*   - the watermark               (lib/document/watermark.ts)             *)
(*   - the three viewer routes: POST /api/nonces/mint,                     *)
(*     GET /api/docs/[docId]/info, GET /api/docs/[docId]/pages/[page]      *)
(*                                                                         *)
(* The specifications share the variables:                                 *)
(*   SpecRL     callers of the rate limiter alone                          *)
(*   SpecReset  callers of the rate limiter and of resetRateLimit          *)
(*   SpecNonce  concurrent callers of the nonce service                    *)
(*   SpecMint   the mint route, while documents are deleted                *)
(*   SpecPages  the viewer's protocol: mint, then pages                    *)
(*   SpecAdmin  the viewer's protocol, while documents are deleted         *)
(*   SpecServe  the same, for any page of any document                     *)
(*   SpecCache  concurrent callers of getCachedDocument                    *)
(*   SpecWatermark  callers of applyWatermark                              *)
(*   Spec       concurrent HTTP requests to the three routes               *)
(*                                                                         *)
(* Strings that the code only compares are TLA+ strings.  The client ip is *)
(* a tuple of characters because the rate-limit key is built by string     *)
(* concatenation (`${ip}:${endpoint}`).                                    *)
(* One clock tick stands for 60000 ms.                                     *)
(***************************************************************************)
EXTENDS Integers, Sequences, FiniteSets, TLC

VARIABLES
    now,             \* Date.now(), in ticks
    cfg,             \* the RateLimitConfig in use
    rateLimitStore,  \* Map<string, RateLimitEntry>
    swept,           \* the cleanup timer has fired
    nonces,          \* table nonces
    accessLogs,      \* table access_logs (append-only sequence)
    documents,       \* table documents
    nextId,          \* number of nonces generated so far
    procs,           \* the requests / service calls in flight
    started,         \* number of requests / calls started
    issued,          \* history: the NonceData values mintNonce returned
    consumed,        \* history: (docId, nonce) pairs a consume call returned a session for
    rlHist,          \* history: per key, the window the calls fall in
    rlLast,          \* history: the last checkRateLimit call
    documentCache,   \* Map<string, CacheEntry>, in insertion order
    loaded,          \* history: the buffers the loaders returned
    watermark,       \* history: the last applyWatermark call
    rlInfo           \* history: the last getRateLimitInfo call

vars == <<now, cfg, rateLimitStore, swept, nonces, accessLogs, documents,
          nextId, procs, started, issued, consumed, rlHist, rlLast,
          documentCache, loaded, watermark, rlInfo>>

----------------------------------------------------------------------------
(* Bounds *)

MaxTime == 3
MaxWindow == 3
MaxCeiling == 2
MaxRLCalls == 4
MaxMints == 1
MaxNonces == 2
MaxAge == 1
MaxCalls == 4
MaxRequests == 3
MaxCacheCalls == 4

NULL == "null"
UNDEFINED == "undefined"

Procs == {"p1", "p2"}
DocIds == {"d1", "d2"}
IPs == {<<"a">>, <<"b">>}

----------------------------------------------------------------------------
(* Rate limiter *)

\* One tick is 60000 ms, so the age the cleanup timer hard-codes is 1 tick.
SWEEP_AGE == 1

\* A faulty Key, to test the properties: the key without the endpoint.
KeyIpOnly(ip, endpoint) == ip \o <<":">>

\* `${ip}:${endpoint}`
Key(ip, endpoint) == ip \o <<":">> \o <<endpoint>>

Put(store, key, entry) ==
    [k \in (DOMAIN store) \cup {key} |-> IF k = key THEN entry ELSE store[k]]

Remove(store, keys) ==
    [k \in (DOMAIN store) \ keys |-> store[k]]

\* A faulty checkRateLimit, to test the properties: `entry.count > cfg.maxRequests`.
checkRateLimitOffByOne(store, c, ip, endpoint, t) ==
    LET key == Key(ip, endpoint)
        windowStart == t - c.windowMs
    IN  IF key \notin DOMAIN store \/ store[key].windowStart < windowStart
        THEN [store  |-> Put(store, key, [count |-> 1, windowStart |-> t]),
              result |-> [allowed   |-> TRUE,
                          remaining |-> c.maxRequests - 1,
                          resetAt   |-> t + c.windowMs]]
        ELSE IF store[key].count > c.maxRequests
        THEN [store  |-> store,
              result |-> [allowed   |-> FALSE,
                          remaining |-> 0,
                          resetAt   |-> store[key].windowStart + c.windowMs]]
        ELSE [store  |-> Put(store, key, [count       |-> store[key].count + 1,
                                          windowStart |-> store[key].windowStart]),
              result |-> [allowed   |-> TRUE,
                          remaining |-> c.maxRequests - (store[key].count + 1),
                          resetAt   |-> store[key].windowStart + c.windowMs]]

\* A faulty checkRateLimit, to test the properties: without
\* `|| entry.windowStart < windowStart`.
checkRateLimitNeverStale(store, c, ip, endpoint, t) ==
    LET key == Key(ip, endpoint)
    IN  IF key \notin DOMAIN store
        THEN [store  |-> Put(store, key, [count |-> 1, windowStart |-> t]),
              result |-> [allowed   |-> TRUE,
                          remaining |-> c.maxRequests - 1,
                          resetAt   |-> t + c.windowMs]]
        ELSE IF store[key].count >= c.maxRequests
        THEN [store  |-> store,
              result |-> [allowed   |-> FALSE,
                          remaining |-> 0,
                          resetAt   |-> store[key].windowStart + c.windowMs]]
        ELSE [store  |-> Put(store, key, [count       |-> store[key].count + 1,
                                          windowStart |-> store[key].windowStart]),
              result |-> [allowed   |-> TRUE,
                          remaining |-> c.maxRequests - (store[key].count + 1),
                          resetAt   |-> store[key].windowStart + c.windowMs]]

\* checkRateLimit: the table after the call and the RateLimitResult.
checkRateLimit(store, c, ip, endpoint, t) ==
    LET key == Key(ip, endpoint)
        windowStart == t - c.windowMs
    IN  IF key \notin DOMAIN store \/ store[key].windowStart < windowStart
        THEN [store  |-> Put(store, key, [count |-> 1, windowStart |-> t]),
              result |-> [allowed   |-> TRUE,
                          remaining |-> c.maxRequests - 1,
                          resetAt   |-> t + c.windowMs]]
        ELSE IF store[key].count >= c.maxRequests
        THEN [store  |-> store,
              result |-> [allowed   |-> FALSE,
                          remaining |-> 0,
                          resetAt   |-> store[key].windowStart + c.windowMs]]
        ELSE [store  |-> Put(store, key, [count       |-> store[key].count + 1,
                                          windowStart |-> store[key].windowStart]),
              result |-> [allowed   |-> TRUE,
                          remaining |-> c.maxRequests - (store[key].count + 1),
                          resetAt   |-> store[key].windowStart + c.windowMs]]

\* The setInterval callback: drops the entries older than SWEEP_AGE.
sweep(store, t) ==
    Remove(store, {k \in DOMAIN store : t > store[k].windowStart + SWEEP_AGE})

\* The cleanup timer fires every CLEANUP_INTERVAL = 5 ticks.  A behaviour here
\* spans MaxTime < 5 ticks and may begin at any phase of the timer, so the timer
\* fires at most once, at any moment.
Sweep ==
    /\ ~swept
    /\ swept' = TRUE
    /\ rateLimitStore' = sweep(rateLimitStore, now)
    /\ UNCHANGED <<now, cfg, nonces, accessLogs, documents, nextId, procs,
                   started, issued, consumed, rlHist, rlLast,
                   documentCache, loaded, watermark,
                   rlInfo>>

Tick ==
    /\ now < MaxTime
    /\ now' = now + 1
    /\ UNCHANGED <<cfg, rateLimitStore, swept, nonces, accessLogs, documents,
                   nextId, procs, started, issued, consumed, rlHist, rlLast,
                   documentCache, loaded, watermark,
                   rlInfo>>

\* "No entry" where a RateLimitEntry is expected (Map.get returned undefined).
NoEntry == [count |-> 0, windowStart |-> -1]

EntryOf(store, key) == IF key \in DOMAIN store THEN store[key] ELSE NoEntry

\* rlLast before any call.
NoCall ==
    [ip       |-> << >>,
     endpoint |-> "none",
     key      |-> << >>,
     result |-> [allowed |-> FALSE, remaining |-> 0, resetAt |-> 0],
     before   |-> NoEntry,
     after    |-> NoEntry,
     afterReset |-> FALSE]

\* History: the window of a key as the callers count it.  A call later than
\* start + windowMs opens a window; a call before start + windowMs is the next
\* call inside it; of a call at exactly start + windowMs nothing is recorded
\* (n = 0) until a window opens again.  `allowed` counts the calls of the
\* window that were answered allowed.  `reset` tells that resetRateLimit has
\* removed the key since its last call.
HistAfter(h, key, t, w, ok) ==
    LET one == IF ok THEN 1 ELSE 0
    IN  IF key \notin DOMAIN h \/ t - h[key].start > w
        THEN Put(h, key, [start |-> t, n |-> 1, allowed |-> one,
                          reset |-> FALSE])
        ELSE IF t - h[key].start = w \/ h[key].n = 0
        THEN Put(h, key, [start |-> h[key].start, n |-> 0, allowed |-> 0,
                          reset |-> FALSE])
        ELSE Put(h, key, [start |-> h[key].start, n |-> h[key].n + 1,
                          allowed |-> h[key].allowed + one, reset |-> FALSE])

RLEndpoints == {"/api/test1", "/api/test2"}

\* A caller of checkRateLimit(ip, endpoint, cfg).
RLCheck(ip, endpoint) ==
    LET r == checkRateLimit(rateLimitStore, cfg, ip, endpoint, now)
        key == Key(ip, endpoint)
    IN  /\ started < MaxRLCalls
        /\ started' = started + 1
        /\ rateLimitStore' = r.store
        /\ rlHist' = HistAfter(rlHist, key, now, cfg.windowMs, r.result.allowed)
        /\ rlLast' = [ip       |-> ip,
                      endpoint |-> endpoint,
                      key      |-> key,
                      result   |-> r.result,
                      before   |-> EntryOf(rateLimitStore, key),
                      after    |-> EntryOf(r.store, key),
                      afterReset |-> key \in DOMAIN rlHist /\ rlHist[key].reset]
        /\ UNCHANGED <<now, cfg, swept, nonces, accessLogs, documents, nextId,
                       procs, issued, consumed, documentCache, loaded,
                       watermark,
                   rlInfo>>

\* key.startsWith(prefix)
StartsWith(key, prefix) ==
    /\ Len(key) >= Len(prefix)
    /\ SubSeq(key, 1, Len(prefix)) = prefix

\* The keys resetRateLimit(ip, endpoint) deletes; `endpoint` is UNDEFINED when
\* the caller passes none, and an empty endpoint is falsy as well.
resetKeys(store, ip, endpoint) ==
    IF endpoint \notin {UNDEFINED, ""}
    THEN {Key(ip, endpoint)} \cap DOMAIN store
    ELSE {k \in DOMAIN store : StartsWith(k, ip \o <<":">>)}

\* A faulty resetRateLimit, to test the properties: without the else branch.
resetRateLimitOneKey(store, ip, endpoint) ==
    Remove(store, {Key(ip, endpoint)})

resetRateLimit(store, ip, endpoint) ==
    Remove(store, resetKeys(store, ip, endpoint))

\* A caller of resetRateLimit(ip, endpoint) or resetRateLimit(ip).
RLReset(ip, endpoint) ==
    LET keys == resetKeys(rateLimitStore, ip, endpoint)
    IN  /\ keys # {}
        /\ rateLimitStore' = resetRateLimit(rateLimitStore, ip, endpoint)
        /\ rlHist' = [k \in DOMAIN rlHist |->
                         IF k \in keys THEN [rlHist[k] EXCEPT !.reset = TRUE]
                         ELSE rlHist[k]]
        /\ UNCHANGED <<now, cfg, swept, nonces, accessLogs, documents, nextId,
                       procs, started, issued, consumed, rlLast,
                       documentCache, loaded, watermark,
                   rlInfo>>

\* "null" where a RateLimitResult is expected.
NoInfo == [allowed |-> FALSE, remaining |-> -1, resetAt |-> -1]

\* getRateLimitInfo: the RateLimitResult or null; the table is only read.
getRateLimitInfo(store, c, ip, endpoint, t) ==
    LET key == Key(ip, endpoint)
    IN  IF key \notin DOMAIN store THEN NoInfo
        ELSE IF store[key].windowStart + c.windowMs < t THEN NoInfo
        ELSE [allowed   |-> store[key].count < c.maxRequests,
              remaining |-> IF c.maxRequests - store[key].count > 0
                            THEN c.maxRequests - store[key].count ELSE 0,
              resetAt   |-> store[key].windowStart + c.windowMs]

\* rlInfo before any call.
NoInfoCall ==
    [ip       |-> << >>,
     endpoint |-> "none",
     key      |-> << >>,
     at       |-> -1,
     entry    |-> NoEntry,
     result   |-> NoInfo]

\* A caller of getRateLimitInfo(ip, endpoint, cfg).
RLInfo(ip, endpoint) ==
    /\ rlInfo' = [ip       |-> ip,
                  endpoint |-> endpoint,
                  key      |-> Key(ip, endpoint),
                  at       |-> now,
                  entry    |-> EntryOf(rateLimitStore, Key(ip, endpoint)),
                  result   |-> getRateLimitInfo(rateLimitStore, cfg, ip,
                                                endpoint, now)]
    /\ UNCHANGED <<now, cfg, rateLimitStore, swept, nonces, accessLogs,
                   documents, nextId, procs, started, issued, consumed,
                   rlHist, rlLast, documentCache, loaded, watermark>>

----------------------------------------------------------------------------
(* Nonce service *)

\* generateNonce() and generateSessionId(): 24 random bytes and a random UUID.
\* Two draws never agree, so the i-th draw is the i-th fresh value.
\* generateNonceFixed is a faulty generateNonce, to test the properties: every
\* draw gives the same value.
generateNonceFixed(i) == "n1"
generateNonce(i) == "n" \o ToString(i)
generateSessionId(i) == "s" \o ToString(i)

\* "No row" where a NonceRecord is expected (queryOne returned null).
NoRow ==
    [id |-> 0, doc_id |-> NULL, nonce |-> NULL, session_id |-> NULL,
     used |-> FALSE, created_at |-> 0]

\* queryOne: rows[0] || null.
queryOne(rows) == IF rows = {} THEN NoRow ELSE CHOOSE r \in rows : TRUE

\* mintNonce: INSERT INTO nonces (doc_id, nonce, session_id, created_at); the
\* column used takes its default 0.
mintNonce(tbl, i, docId, t) ==
    LET nonce == generateNonce(i)
        sessionId == generateSessionId(i)
    IN  [nonces |-> tbl \cup {[id |-> i, doc_id |-> docId, nonce |-> nonce,
                               session_id |-> sessionId, used |-> FALSE,
                               created_at |-> t]},
         data   |-> [nonce |-> nonce, sessionId |-> sessionId, docId |-> docId,
                     issuedAt |-> t]]

\* A faulty selectUnused, to test the properties: the SELECT without `AND used = 0`.
selectIgnoringUsed(tbl, docId, nonce) ==
    queryOne({r \in tbl : r.doc_id = docId /\ r.nonce = nonce})

\* A faulty selectUnused, to test the properties: the SELECT without `doc_id = ?`.
selectIgnoringDoc(tbl, docId, nonce) ==
    queryOne({r \in tbl : r.nonce = nonce /\ ~r.used})

\* SELECT ... WHERE doc_id = ? AND nonce = ? AND used = 0
selectUnused(tbl, docId, nonce) ==
    queryOne({r \in tbl : r.doc_id = docId /\ r.nonce = nonce /\ ~r.used})

\* A faulty isNonceValid, to test the properties: a used row counts as well.
isNonceValidAfterUse(tbl, docId, nonce) ==
    selectIgnoringUsed(tbl, docId, nonce) # NoRow

\* isNonceValid: SELECT id ... WHERE doc_id = ? AND nonce = ? AND used = 0,
\* `return result !== null`.
isNonceValid(tbl, docId, nonce) ==
    selectUnused(tbl, docId, nonce) # NoRow

\* A faulty markUsed, to test the properties: SET used = NOT used.
markUsedToggle(tbl, docId, nonce) ==
    {IF r.doc_id = docId /\ r.nonce = nonce THEN [r EXCEPT !.used = ~r.used] ELSE r
        : r \in tbl}

\* UPDATE nonces SET used = 1 WHERE doc_id = ? AND nonce = ?
markUsed(tbl, docId, nonce) ==
    {IF r.doc_id = docId /\ r.nonce = nonce THEN [r EXCEPT !.used = TRUE] ELSE r
        : r \in tbl}

\* A faulty getNonceInfo, to test the properties: the SELECT without its WHERE.
getNonceInfoAny(tbl, nonce) ==
    queryOne(tbl)

\* SELECT * FROM nonces WHERE nonce = ?
getNonceInfo(tbl, nonce) ==
    queryOne({r \in tbl : r.nonce = nonce})

\* DELETE FROM nonces WHERE created_at < now - olderThanDays
cleanupOldNonces(tbl, olderThanDays, t) ==
    LET old == {r \in tbl : r.created_at < t - olderThanDays}
    IN  [nonces |-> tbl \ old, rowsAffected |-> Cardinality(old)]

----------------------------------------------------------------------------
(* Watermark *)

\* A string whose characters matter is a tuple of characters.  An optional
\* property that is not there is Absent.
Absent == <<UNDEFINED>>

\* `if (value)` of an optional string: neither undefined nor empty.
Truthy(value) == value # Absent /\ value # << >>

\* s.substring(start, end)
substring(s, start, end) ==
    SubSeq(s, start + 1, IF end < Len(s) THEN end ELSE Len(s))

\* parts.join(sep)
RECURSIVE join(_, _)
join(parts, sep) ==
    IF parts = << >> THEN << >>
    ELSE IF Len(parts) = 1 THEN parts[1]
    ELSE parts[1] \o sep \o join(Tail(parts), sep)

\* 'IP: ', 'Time: ', 'Session: ', 'Req: ' and ' | '
IpLabel == <<"I", "P", ":", " ">>
TimeLabel == <<"T", "i", "m", "e", ":", " ">>
SessionLabel == <<"S", "e", "s", "s", "i", "o", "n", ":", " ">>
ReqLabel == <<"R", "e", "q", ":", " ">>
Separator == <<" ", "|", " ">>

\* A faulty generateWatermarkText, to test the properties: the session id in full.
generateWatermarkTextFull(info) ==
    LET p1 == IF Truthy(info.ip) THEN <<IpLabel \o info.ip>> ELSE << >>
        p2 == IF Truthy(info.timestamp)
              THEN Append(p1, TimeLabel \o info.timestamp) ELSE p1
        p3 == IF Truthy(info.sessionId)
              THEN Append(p2, SessionLabel \o info.sessionId) ELSE p2
        p4 == IF Truthy(info.requestId)
              THEN Append(p3, ReqLabel \o substring(info.requestId, 0, 8)) ELSE p3
        p5 == IF Truthy(info.customText) THEN Append(p4, info.customText) ELSE p4
    IN  join(p5, Separator)

\* generateWatermarkText(info): the parts pushed one after the other, joined.
generateWatermarkText(info) ==
    LET p1 == IF Truthy(info.ip) THEN <<IpLabel \o info.ip>> ELSE << >>
        p2 == IF Truthy(info.timestamp)
              THEN Append(p1, TimeLabel \o info.timestamp) ELSE p1
        p3 == IF Truthy(info.sessionId)
              THEN Append(p2, SessionLabel \o substring(info.sessionId, 0, 8))
              ELSE p2
        p4 == IF Truthy(info.requestId)
              THEN Append(p3, ReqLabel \o substring(info.requestId, 0, 8)) ELSE p3
        p5 == IF Truthy(info.customText) THEN Append(p4, info.customText) ELSE p4
    IN  join(p5, Separator)

\* An image buffer: its bytes, whether sharp can read its metadata, and the
\* text of the overlay composited onto it, if any.
NoImageBuffer == [data |-> NULL, decodable |-> FALSE, watermarkText |-> << >>]

\* applyWatermark(imageBuffer, info): `await image.metadata()` rejects for a
\* buffer sharp cannot read; an empty text returns the buffer itself; else
\* the buffer is composited with the overlay of the text and encoded as PNG.
applyWatermark(imageBuffer, info) ==
    IF ~imageBuffer.decodable
    THEN [thrown |-> TRUE, text |-> << >>, image |-> NoImageBuffer]
    ELSE LET watermarkText == generateWatermarkText(info)
         IN  IF watermarkText = << >>
             THEN [thrown |-> FALSE, text |-> watermarkText, image |-> imageBuffer]
             ELSE [thrown |-> FALSE, text |-> watermarkText,
                   image |-> [imageBuffer EXCEPT !.watermarkText = watermarkText]]

NoWatermarkInfo ==
    [ip |-> Absent, timestamp |-> Absent, sessionId |-> Absent,
     requestId |-> Absent, customText |-> Absent]

NoPolicy ==
    [showIp |-> FALSE, showTimestamp |-> FALSE, showSessionId |-> FALSE,
     customText |-> Absent]

\* pages route, the WatermarkInfo it passes to applyWatermark.
watermarkInfo(policy, ip, timestamp, sessionId) ==
    [ip         |-> IF policy.showIp THEN ip ELSE Absent,
     timestamp  |-> IF policy.showTimestamp THEN timestamp ELSE Absent,
     sessionId  |-> IF policy.showSessionId THEN sessionId ELSE Absent,
     requestId  |-> Absent,
     customText |-> policy.customText]

\* `watermark` before any call.
NoWatermark ==
    [route  |-> FALSE,          \* the call is the one of the pages route
     policy |-> NoPolicy,       \* the watermarkPolicy of the document
     info   |-> NoWatermarkInfo,
     input  |-> NoImageBuffer,
     thrown |-> FALSE,
     text   |-> << >>,
     output |-> NoImageBuffer]

----------------------------------------------------------------------------
(* What a request or a service call in flight holds *)

\* "No image" where the body of a response is expected.
NoImage == [docId |-> NULL, page |-> 0, ip |-> << >>, sessionId |-> NULL]

NoData == [nonce |-> NULL, sessionId |-> NULL, docId |-> NULL, issuedAt |-> 0]

\* "No document" where a DocumentMetadata is expected (getDocument returned null).
NoDocument ==
    [status |-> NULL, contentType |-> NULL, pages |-> 0, passwordHash |-> NULL,
     showSessionId |-> FALSE, showIp |-> FALSE]

Idle ==
    [pc        |-> "idle",   \* where the call stands
     op        |-> "none",   \* the operation or route
     docId     |-> NULL,
     nonce     |-> NULL,
     page      |-> 0,
     ip        |-> << >>,
     nonceInfo |-> NoRow,    \* what getNonceInfo returned
     result    |-> NoRow,    \* what the SELECT of validateAndConsumeNonce returned
     sessionId |-> NULL,
     password  |-> NULL,     \* the password of the request body
     document  |-> NoDocument,  \* what getDocument returned
     ret       |-> NULL,     \* the value a service call returned
     data      |-> NoData,   \* the NonceData mintNonce returned
     rateLimit |-> "none",   \* the answer of the rate limiter: allowed, denied
     status    |-> 0,        \* the HTTP status of the response
     error     |-> NULL,     \* the error text of the response
     image     |-> NoImage,  \* the page image of the response
     logged    |-> << >>,    \* history: the access-log entries the request appended
     touched   |-> FALSE,    \* history: the request changed the table nonces
     rowBefore |-> NoRow,    \* history: the nonce's row when the call began
     rowAfter  |-> NoRow,    \* history: the nonce's row when the call ended
     later     |-> FALSE,    \* history: the call began after a consume of its
                             \* (docId, nonce) had returned a session
     failure   |-> "none",   \* history: what failed while the page was produced
     at        |-> 0,        \* `const now = Date.now()` of getCachedDocument
     cache     |-> "none"]   \* history: getCachedDocument found the entry: hit, miss

Free(p) == procs[p].pc \in {"idle", "done"}

NonceArgs == {generateNonce(i) : i \in 1..nextId} \cup {"fake-nonce"}

\* A caller of mintNonce(docId).
CallMint(p, docId) ==
    LET m == mintNonce(nonces, nextId + 1, docId, now)
    IN  /\ Free(p)
        /\ started < MaxCalls
        /\ nextId < MaxNonces
        /\ started' = started + 1
        /\ nextId' = nextId + 1
        /\ nonces' = m.nonces
        /\ issued' = issued \cup {m.data}
        /\ procs' = [procs EXCEPT ![p] =
               [Idle EXCEPT !.pc = "done", !.op = "mint", !.docId = docId,
                            !.data = m.data, !.nonce = m.data.nonce,
                            !.rowAfter = getNonceInfo(m.nonces, m.data.nonce)]]
        /\ UNCHANGED <<now, cfg, rateLimitStore, swept, accessLogs, documents,
                       consumed, rlHist, rlLast, documentCache, loaded,
                       watermark,
                   rlInfo>>

\* A caller of isNonceValid(docId, nonce).
CallIsValid(p, docId, nonce) ==
    /\ Free(p)
    /\ started < MaxCalls
    /\ started' = started + 1
    /\ procs' = [procs EXCEPT ![p] =
           [Idle EXCEPT !.pc = "done", !.op = "isValid", !.docId = docId,
                        !.nonce = nonce,
                        !.ret = isNonceValid(nonces, docId, nonce),
                        !.later = (<<docId, nonce>> \in consumed),
                        !.rowBefore = getNonceInfo(nonces, nonce),
                        !.rowAfter = getNonceInfo(nonces, nonce)]]
    /\ UNCHANGED <<now, cfg, rateLimitStore, swept, nonces, accessLogs,
                   documents, nextId, issued, consumed, rlHist, rlLast,
                   documentCache, loaded, watermark,
                   rlInfo>>

\* A caller of getNonceInfo(nonce).
CallGetInfo(p, nonce) ==
    /\ Free(p)
    /\ started < MaxCalls
    /\ started' = started + 1
    /\ procs' = [procs EXCEPT ![p] =
           [Idle EXCEPT !.pc = "done", !.op = "getInfo", !.nonce = nonce,
                        !.nonceInfo = getNonceInfo(nonces, nonce),
                        !.rowBefore = getNonceInfo(nonces, nonce),
                        !.rowAfter = getNonceInfo(nonces, nonce)]]
    /\ UNCHANGED <<now, cfg, rateLimitStore, swept, nonces, accessLogs,
                   documents, nextId, issued, consumed, rlHist, rlLast,
                   documentCache, loaded, watermark,
                   rlInfo>>

\* validateAndConsumeNonce(docId, nonce), up to `if (!result) return null`.
CallConsume(p, docId, nonce) ==
    LET result == selectUnused(nonces, docId, nonce)
        call == [Idle EXCEPT !.op = "consume", !.docId = docId, !.nonce = nonce,
                             !.result = result,
                             !.rowBefore = getNonceInfo(nonces, nonce),
                             !.later = (<<docId, nonce>> \in consumed)]
    IN  /\ Free(p)
        /\ started < MaxCalls
        /\ started' = started + 1
        /\ procs' = [procs EXCEPT ![p] =
               IF result = NoRow
               THEN [call EXCEPT !.pc = "done", !.ret = NULL,
                                 !.rowAfter = getNonceInfo(nonces, nonce)]
               ELSE [call EXCEPT !.pc = "update"]]
        /\ UNCHANGED <<now, cfg, rateLimitStore, swept, nonces, accessLogs,
                       documents, nextId, issued, consumed, rlHist, rlLast,
                       documentCache, loaded, watermark,
                   rlInfo>>

\* validateAndConsumeNonce, from the UPDATE to `return result.session_id`.
ConsumeUpdate(p) ==
    LET c == procs[p]
        tbl == markUsed(nonces, c.docId, c.nonce)
    IN  /\ c.pc = "update"
        /\ c.op = "consume"
        /\ nonces' = tbl
        /\ consumed' = consumed \cup {<<c.docId, c.nonce>>}
        /\ procs' = [procs EXCEPT ![p] =
               [c EXCEPT !.pc = "done", !.ret = c.result.session_id,
                         !.rowAfter = getNonceInfo(tbl, c.nonce)]]
        /\ UNCHANGED <<now, cfg, rateLimitStore, swept, accessLogs, documents,
                       nextId, started, issued, rlHist, rlLast,
                       documentCache, loaded, watermark,
                   rlInfo>>

\* A caller of cleanupOldNonces(olderThanDays); here a tick stands for a day.
CallCleanup(p, olderThanDays) ==
    LET c == cleanupOldNonces(nonces, olderThanDays, now)
    IN  /\ Free(p)
        /\ started < MaxCalls
        /\ started' = started + 1
        /\ nonces' = c.nonces
        /\ procs' = [procs EXCEPT ![p] =
               [Idle EXCEPT !.pc = "done", !.op = "cleanup",
                            !.ret = c.rowsAffected]]
        /\ UNCHANGED <<now, cfg, rateLimitStore, swept, accessLogs, documents,
                       nextId, issued, consumed, rlHist, rlLast,
                       documentCache, loaded, watermark,
                   rlInfo>>

InitCommon ==
    /\ now = 0
    /\ rateLimitStore = << >>
    /\ swept = FALSE
    /\ nonces = {}
    /\ accessLogs = << >>
    /\ nextId = 0
    /\ procs = [p \in Procs |-> Idle]
    /\ started = 0
    /\ issued = {}
    /\ consumed = {}
    /\ rlHist = << >>
    /\ rlLast = NoCall
    /\ documentCache = << >>
    /\ loaded = {}
    /\ watermark = NoWatermark
    /\ rlInfo = NoInfoCall

InitRL ==
    /\ InitCommon
    /\ cfg \in [maxRequests : 0..MaxCeiling, windowMs : 1..MaxWindow]
    /\ documents = << >>

NextRL ==
    \/ \E ip \in IPs, endpoint \in RLEndpoints : RLCheck(ip, endpoint)
    \/ Tick
    \/ Sweep

SpecRL == InitRL /\ [][NextRL]_vars

\* Callers of the rate limiter and of resetRateLimit, as in the tests of
\* resetRateLimit: within one window of a configuration { maxRequests, windowMs }.
InitReset ==
    /\ InitCommon
    /\ cfg \in [maxRequests : 0..MaxCeiling, windowMs : {MaxWindow}]
    /\ documents = << >>

\* The clients of the reset tests, and one whose address contains ':' and
\* begins with the address of another (an IPv6 address does).
ResetClients == IPs \cup {<<"a", ":", "b">>}

NextReset ==
    \/ \E ip \in ResetClients, endpoint \in RLEndpoints : RLCheck(ip, endpoint)
    \/ \E ip \in ResetClients, endpoint \in RLEndpoints \cup {UNDEFINED} :
           RLReset(ip, endpoint)

SpecReset == InitReset /\ [][NextReset]_vars

\* Callers of checkRateLimit and of getRateLimitInfo, as in the tests of
\* getRateLimitInfo, while the clock runs: any ceiling, and the default window
\* of RATE_LIMIT_WINDOW_MS = 60000 ms (one tick).
InitInfo ==
    /\ InitCommon
    /\ cfg \in [maxRequests : 0..MaxCeiling, windowMs : {SWEEP_AGE}]
    /\ documents = << >>

NextInfo ==
    \/ \E ip \in IPs, endpoint \in RLEndpoints : RLCheck(ip, endpoint)
    \/ \E ip \in IPs, endpoint \in RLEndpoints : RLInfo(ip, endpoint)
    \/ Tick

SpecInfo == InitInfo /\ [][NextInfo]_vars

\* The configuration getRateLimitConfig() returns: RATE_LIMIT_MAX requests per
\* RATE_LIMIT_WINDOW_MS (by default one tick), here a ceiling of 1.
getRateLimitConfig == [maxRequests |-> 1, windowMs |-> 1]

InitNonce ==
    /\ InitCommon
    /\ cfg = getRateLimitConfig
    /\ documents = << >>

NextNonce ==
    \/ \E p \in Procs, docId \in DocIds : CallMint(p, docId)
    \/ \E p \in Procs, docId \in DocIds, nonce \in NonceArgs :
           CallIsValid(p, docId, nonce)
    \/ \E p \in Procs, nonce \in NonceArgs : CallGetInfo(p, nonce)
    \/ \E p \in Procs, docId \in DocIds, nonce \in NonceArgs :
           CallConsume(p, docId, nonce)
    \/ \E p \in Procs : ConsumeUpdate(p)
    \/ \E p \in Procs, olderThanDays \in {0, 1} : CallCleanup(p, olderThanDays)
    \/ now < MaxAge /\ Tick

SpecNonce == InitNonce /\ [][NextNonce]_vars

----------------------------------------------------------------------------
(* Access log *)

NoMeta == [reason |-> NULL, nonce |-> NULL, page |-> 0]

\* A faulty logAccess, to test the properties: the row without its session_id.
logAccessNoSession(docId, action, sessionId, ip, metadata) ==
    [docId     |-> docId,
     sessionId |-> NULL,
     ip        |-> ip,
     action    |-> action,
     metadata  |-> metadata]

\* logAccess: the row INSERTed INTO access_logs; an option that is absent or
\* falsy is stored as null.
logAccess(docId, action, sessionId, ip, metadata) ==
    [docId     |-> docId,
     sessionId |-> IF sessionId \in {UNDEFINED, NULL, ""} THEN NULL ELSE sessionId,
     ip        |-> ip,
     action    |-> action,
     metadata  |-> metadata]

----------------------------------------------------------------------------
(* Routes *)

Hash(password) == <<"hash", password>>

\* A faulty verifyPassword, to test the properties: every password verifies.
verifyPasswordAlways(password, passwordHash) == TRUE

\* verifyPassword(password, passwordHash)
verifyPassword(password, passwordHash) == passwordHash = Hash(password)

\* getDocument(docId): the row of the table documents, or null.
getDocument(docs, docId) ==
    IF docId \in DOMAIN docs THEN docs[docId] ELSE NoDocument

imageTypes == {"image/jpeg", "image/png", "image/webp", "image/bmp"}

\* row.sessionId of a raw row of the table nonces: the column is session_id,
\* so the property read is undefined.
sessionIdOf(row) ==
    IF "sessionId" \in DOMAIN row THEN row.sessionId ELSE UNDEFINED

\* What a step of a route yields: the request as it goes on, and the entries
\* it appends to the access log.
Go(c, pc) == [proc |-> [c EXCEPT !.pc = pc], logs |-> << >>]

Respond(c, status, error, logs) ==
    [proc |-> [c EXCEPT !.pc = "done", !.status = status, !.error = error],
     logs |-> logs]

\* A faulty rateLimitedPage, to test the properties: the 429 without the access-log entry.
rateLimitedPageSilent(c) ==
    Respond(c, 429, "Rate limit exceeded", << >>)

\* pages route, `if (!rateLimit.allowed)`.
rateLimitedPage(c) ==
    Respond(c, 429, "Rate limit exceeded",
            <<logAccess(c.docId, "rate_limited", UNDEFINED, c.ip, NoMeta)>>)

\* A faulty laterPage, to test the properties: without `if (!nonceInfo.used)`.
laterPageUnchecked(c) ==
    IF c.nonceInfo = NoRow
    THEN Respond(c, 401, "Invalid nonce",
            <<logAccess(c.docId, "invalid_nonce", UNDEFINED, c.ip,
                        [NoMeta EXCEPT !.reason = "not_found", !.page = c.page])>>)
    ELSE Go([c EXCEPT !.sessionId = sessionIdOf(c.nonceInfo)], "document")

\* A faulty laterPage, to test the properties: an unused nonce is answered like an unknown one.
laterPageAsInvalid(c) ==
    IF c.nonceInfo = NoRow \/ ~c.nonceInfo.used
    THEN Respond(c, 401, "Invalid nonce",
            <<logAccess(c.docId, "invalid_nonce", UNDEFINED, c.ip,
                        [NoMeta EXCEPT !.reason = "not_found", !.page = c.page])>>)
    ELSE Go([c EXCEPT !.sessionId = sessionIdOf(c.nonceInfo)], "document")

\* A faulty laterPage, to test the properties: a used nonce is refused.
laterPageSingleUse(c) ==
    IF c.nonceInfo = NoRow \/ c.nonceInfo.used
    THEN Respond(c, 401, "Invalid nonce",
            <<logAccess(c.docId, "invalid_nonce", UNDEFINED, c.ip,
                        [NoMeta EXCEPT !.reason = "not_found", !.page = c.page])>>)
    ELSE Respond([c EXCEPT !.sessionId = sessionIdOf(c.nonceInfo)],
                 400, "Must request page 1 first", << >>)

\* pages route, the else branch of `if (pageNumber === 1)`.
laterPage(c) ==
    IF c.nonceInfo = NoRow
    THEN Respond(c, 401, "Invalid nonce",
            <<logAccess(c.docId, "invalid_nonce", UNDEFINED, c.ip,
                        [NoMeta EXCEPT !.reason = "not_found", !.page = c.page])>>)
    ELSE IF ~c.nonceInfo.used
    THEN Respond([c EXCEPT !.sessionId = sessionIdOf(c.nonceInfo)],
                 400, "Must request page 1 first", << >>)
    ELSE Go([c EXCEPT !.sessionId = sessionIdOf(c.nonceInfo)], "document")

\* pages route, `if (pageNumber === 1)`, up to the UPDATE of
\* validateAndConsumeNonce.
firstPage(c, tbl) ==
    LET result == selectUnused(tbl, c.docId, c.nonce)
    IN  IF result = NoRow
        THEN Respond(c, 401, "Invalid or expired nonce",
                <<logAccess(c.docId, "invalid_nonce", UNDEFINED, c.ip,
                            [NoMeta EXCEPT !.nonce = c.nonce, !.page = c.page])>>)
        ELSE Go([c EXCEPT !.result = result], "update")

\* pages route from its first line to the first await that it does not
\* return from: the page number, the rate limiter, the nonce of the request,
\* getNonceInfo, and the branch on the page number.  `rl` is the result of
\* checkRateLimit.  On the page-1 path the row getNonceInfo read is not used,
\* so its read and the SELECT of validateAndConsumeNonce are one step.
pageStart(c, rl, tbl) ==
    IF c.page < 1
    THEN Respond(c, 400, "Invalid page number", << >>)
    ELSE IF ~rl.allowed
    THEN rateLimitedPage([c EXCEPT !.rateLimit = "denied"])
    ELSE LET c1 == [c EXCEPT !.rateLimit = "allowed"]
         IN  IF c.nonce = NULL
             THEN Respond(c1, 401, "Nonce required",
                     <<logAccess(c.docId, "invalid_nonce", UNDEFINED, c.ip,
                                 [NoMeta EXCEPT !.reason = "missing"])>>)
             ELSE LET c2 == [c1 EXCEPT !.nonceInfo = getNonceInfo(tbl, c.nonce)]
                  IN  IF c.page = 1 THEN firstPage(c2, tbl) ELSE laterPage(c2)

\* A faulty pageFinish, to test the properties: without the two
\* `pageNumber > totalPages` checks.
pageFinishUnbounded(c0, docs, io) ==
    LET document == getDocument(docs, c0.docId)
        c == [c0 EXCEPT !.document = document]
        failed == [c EXCEPT !.failure = io]
    IN  IF document = NoDocument \/ document.status # "active"
        THEN Respond(c, 404, "Document not found", << >>)
        ELSE IF io = "missing"
        THEN Respond(failed, 500, "Document file not found", << >>)
        ELSE IF io \in {"throws", "logfails"}
        THEN Respond(failed, 500, "Internal server error", << >>)
        ELSE Respond([c EXCEPT !.image =
                        [docId     |-> c.docId,
                         page      |-> c.page,
                         ip        |-> IF document.showIp THEN c.ip ELSE << >>,
                         sessionId |-> IF document.showSessionId
                                       THEN c.sessionId ELSE UNDEFINED]],
                     200, NULL,
                     <<logAccess(c.docId, "page_request", c.sessionId, c.ip,
                                 [NoMeta EXCEPT !.page = c.page])>>)

\* A faulty pageFinish, to test the properties: `if (!document)` without
\* `|| document.status !== 'active'`.
pageFinishAnyStatus(c0, docs, io) ==
    LET document == getDocument(docs, c0.docId)
        c == [c0 EXCEPT !.document = document]
        failed == [c EXCEPT !.failure = io]
        isImage == document.contentType \in imageTypes
        totalPages == IF isImage THEN 1 ELSE document.pages
    IN  IF document = NoDocument
        THEN Respond(c, 404, "Document not found", << >>)
        ELSE IF c.page > totalPages
        THEN Respond(c, 404, "Page does not exist", << >>)
        ELSE IF io = "missing"
        THEN Respond(failed, 500, "Document file not found", << >>)
        ELSE IF io \in {"throws", "logfails"}
        THEN Respond(failed, 500, "Internal server error", << >>)
        ELSE Respond([c EXCEPT !.image =
                        [docId     |-> c.docId,
                         page      |-> c.page,
                         ip        |-> IF document.showIp THEN c.ip ELSE << >>,
                         sessionId |-> IF document.showSessionId
                                       THEN c.sessionId ELSE UNDEFINED]],
                     200, NULL,
                     <<logAccess(c.docId, "page_request", c.sessionId, c.ip,
                                 [NoMeta EXCEPT !.page = c.page])>>)

\* A faulty pageFinish, to test the properties: logAccess('page_request')
\* before the file is read, decrypted and rendered.
pageFinishLogFirst(c0, docs, io) ==
    LET document == getDocument(docs, c0.docId)
        c == [c0 EXCEPT !.document = document]
        failed == [c EXCEPT !.failure = io]
        isImage == document.contentType \in imageTypes
        totalPages == IF isImage THEN 1 ELSE document.pages
        entry == logAccess(c.docId, "page_request", c.sessionId, c.ip,
                           [NoMeta EXCEPT !.page = c.page])
    IN  IF document = NoDocument \/ document.status # "active"
        THEN Respond(c, 404, "Document not found", << >>)
        ELSE IF c.page > totalPages
        THEN Respond(c, 404, "Page does not exist", << >>)
        ELSE IF io = "logfails"
        THEN Respond(failed, 500, "Internal server error", << >>)
        ELSE IF io = "missing"
        THEN Respond(failed, 500, "Document file not found", <<entry>>)
        ELSE IF io = "throws"
        THEN Respond(failed, 500, "Internal server error", <<entry>>)
        ELSE Respond([c EXCEPT !.image =
                        [docId     |-> c.docId,
                         page      |-> c.page,
                         ip        |-> IF document.showIp THEN c.ip ELSE << >>,
                         sessionId |-> IF document.showSessionId
                                       THEN c.sessionId ELSE UNDEFINED]],
                     200, NULL, <<entry>>)

\* pages route from getDocument to the response.  `io` is what reading,
\* decrypting and rendering the stored file, and then the INSERT of logAccess,
\* do: "ok", "missing" (the file is not there), "throws" (reading, decrypting
\* or rendering throws) or "logfails" (the INSERT throws).
pageFinish(c0, docs, io) ==
    LET document == getDocument(docs, c0.docId)
        c == [c0 EXCEPT !.document = document]
        failed == [c EXCEPT !.failure = io]
        isImage == document.contentType \in imageTypes
        totalPages == IF isImage THEN 1 ELSE document.pages
    IN  IF document = NoDocument \/ document.status # "active"
        THEN Respond(c, 404, "Document not found", << >>)
        ELSE IF isImage /\ c.page > 1
        THEN Respond(c, 404, "Page does not exist", << >>)
        ELSE IF io = "missing"
        THEN Respond(failed, 500, "Document file not found", << >>)
        ELSE IF io = "throws"
        THEN Respond(failed, 500, "Internal server error", << >>)
        ELSE IF c.page > totalPages
        THEN Respond(c, 404, "Page does not exist", << >>)
        ELSE IF io = "logfails"
        THEN Respond(failed, 500, "Internal server error", << >>)
        ELSE Respond([c EXCEPT !.image =
                        [docId     |-> c.docId,
                         page      |-> c.page,
                         ip        |-> IF document.showIp THEN c.ip ELSE << >>,
                         sessionId |-> IF document.showSessionId
                                       THEN c.sessionId ELSE UNDEFINED]],
                     200, NULL,
                     <<logAccess(c.docId, "page_request", c.sessionId, c.ip,
                                 [NoMeta EXCEPT !.page = c.page])>>)

\* The request after a step: with the history of what the step did.
Track(r, tbl) ==
    [r.proc EXCEPT !.logged = @ \o r.logs,
                   !.touched = @ \/ (tbl # nonces)]

PAGES == "/api/docs/pages"
MINT == "/api/nonces/mint"
INFO == "/api/docs/info"

\* GET /api/docs/[docId]/pages/[page] arrives.
PageStart(p, ip, docId, page, nonce) ==
    LET c == [Idle EXCEPT !.op = "page", !.ip = ip, !.docId = docId,
                          !.page = page, !.nonce = nonce,
                          !.rowBefore = getNonceInfo(nonces, nonce),
                          !.later = (<<docId, nonce>> \in consumed)]
        rl == checkRateLimit(rateLimitStore, cfg, ip, PAGES, now)
        r == pageStart(c, rl.result, nonces)
    IN  /\ Free(p)
        /\ started < MaxRequests
        /\ started' = started + 1
        /\ rateLimitStore' = IF page < 1 THEN rateLimitStore ELSE rl.store
        /\ accessLogs' = accessLogs \o r.logs
        /\ procs' = [procs EXCEPT ![p] = Track(r, nonces)]
        /\ UNCHANGED <<now, cfg, swept, nonces, documents, nextId, issued,
                       consumed, rlHist, rlLast, documentCache, loaded,
                       watermark,
                   rlInfo>>

\* The page-1 request goes on: the UPDATE of validateAndConsumeNonce and
\* `return result.session_id`.
PageUpdate(p) ==
    LET c == procs[p]
        tbl == markUsed(nonces, c.docId, c.nonce)
        r == Go([c EXCEPT !.sessionId = c.result.session_id], "document")
    IN  /\ c.pc = "update"
        /\ c.op = "page"
        /\ nonces' = tbl
        /\ consumed' = consumed \cup {<<c.docId, c.nonce>>}
        /\ procs' = [procs EXCEPT ![p] = Track(r, tbl)]
        /\ UNCHANGED <<now, cfg, rateLimitStore, swept, accessLogs, documents,
                       nextId, started, issued, rlHist, rlLast,
                       documentCache, loaded, watermark,
                   rlInfo>>

\* A faulty PageFinish, to test the properties: a page-1 request that fails
\* gives its nonce back.
PageFinishRollback(p, io) ==
    LET r == pageFinish(procs[p], documents, io)
        tbl == IF r.proc.status # 200 /\ procs[p].page = 1
               THEN {IF row.doc_id = procs[p].docId /\ row.nonce = procs[p].nonce
                     THEN [row EXCEPT !.used = FALSE] ELSE row : row \in nonces}
               ELSE nonces
    IN  /\ procs[p].pc = "document"
        /\ procs[p].op = "page"
        /\ accessLogs' = accessLogs \o r.logs
        /\ nonces' = tbl
        /\ procs' = [procs EXCEPT ![p] = Track(r, tbl)]
        /\ UNCHANGED <<now, cfg, rateLimitStore, swept, documents,
                       nextId, started, issued, consumed, rlHist, rlLast,
                       documentCache, loaded, watermark,
                   rlInfo>>

\* The page request goes on: document, page count, render, watermark, log,
\* response.
PageFinish(p, io) ==
    LET r == pageFinish(procs[p], documents, io)
    IN  /\ procs[p].pc = "document"
        /\ procs[p].op = "page"
        /\ accessLogs' = accessLogs \o r.logs
        /\ procs' = [procs EXCEPT ![p] = Track(r, nonces)]
        /\ UNCHANGED <<now, cfg, rateLimitStore, swept, nonces, documents,
                       nextId, started, issued, consumed, rlHist, rlLast,
                       documentCache, loaded, watermark,
                   rlInfo>>

\* mint route up to `// Mint new nonce`: the response of a request that ends
\* there, or that the route goes on to mintNonce.  `password` is NULL when the
\* body carries none.
Refuse(r) == [proc |-> r.proc, logs |-> r.logs, mint |-> FALSE]

mintRoute(c, rl, docs, password) ==
    LET document == getDocument(docs, c.docId)
    IN  IF ~rl.allowed
        THEN Refuse(Respond([c EXCEPT !.rateLimit = "denied"], 429,
                            "Rate limit exceeded. Please try again later.", << >>))
        ELSE LET c1 == [c EXCEPT !.rateLimit = "allowed"]
             IN  IF c.docId = NULL
                 THEN Refuse(Respond(c1, 400, "docId is required or invalid", << >>))
                 ELSE LET c2 == [c1 EXCEPT !.document = document]
                 IN  IF document = NoDocument \/ document.status # "active"
                     THEN Refuse(Respond(c2, 404, "Document not found", << >>))
                     ELSE IF document.passwordHash # NULL /\ password = NULL
                     THEN Refuse(Respond(c2, 401, "Password required", << >>))
                     ELSE IF /\ document.passwordHash # NULL
                             /\ ~verifyPassword(password, document.passwordHash)
                     THEN Refuse(Respond(c2, 401, "Invalid password",
                              <<logAccess(c.docId, "auth_fail", UNDEFINED, c.ip,
                                          NoMeta)>>))
                     ELSE [proc |-> c2, logs |-> << >>, mint |-> TRUE]

\* POST /api/nonces/mint.
MintRequest(p, ip, docId, password) ==
    LET c == [Idle EXCEPT !.op = "mint", !.ip = ip, !.docId = docId,
                          !.password = password]
        rl == checkRateLimit(rateLimitStore, cfg, ip, MINT, now)
        r0 == mintRoute(c, rl.result, documents, password)
        m == mintNonce(nonces, nextId + 1, docId, now)
        r == IF r0.mint
             THEN Respond([r0.proc EXCEPT !.data = m.data,
                                          !.nonce = m.data.nonce,
                                          !.sessionId = m.data.sessionId],
                          200, NULL,
                          <<logAccess(docId, "nonce_mint", m.data.sessionId,
                                      ip, NoMeta)>>)
             ELSE [proc |-> r0.proc, logs |-> r0.logs]
        tbl == IF r0.mint THEN m.nonces ELSE nonces
    IN  /\ Free(p)
        /\ started < MaxRequests
        /\ r0.mint => nextId < MaxMints
        /\ started' = started + 1
        /\ rateLimitStore' = rl.store
        /\ nonces' = tbl
        /\ nextId' = IF r0.mint THEN nextId + 1 ELSE nextId
        /\ issued' = IF r0.mint THEN issued \cup {m.data} ELSE issued
        /\ accessLogs' = accessLogs \o r.logs
        /\ procs' = [procs EXCEPT ![p] = Track(r, tbl)]
        /\ UNCHANGED <<now, cfg, swept, documents, consumed, rlHist, rlLast, documentCache, loaded, watermark,
                   rlInfo>>

\* info route: what it answers.
infoRoute(c, rl, tbl, docs) ==
    LET document == getDocument(docs, c.docId)
    IN  IF ~rl.allowed
        THEN Respond([c EXCEPT !.rateLimit = "denied"], 429,
                     "Rate limit exceeded", << >>)
        ELSE LET c1 == [c EXCEPT !.rateLimit = "allowed"]
             IN  IF c.nonce = NULL
                 THEN Respond(c1, 401, "Nonce required",
                         <<logAccess(c.docId, "invalid_nonce", UNDEFINED, c.ip,
                                     [NoMeta EXCEPT !.reason = "missing"])>>)
                 ELSE IF ~isNonceValid(tbl, c.docId, c.nonce)
                 THEN Respond(c1, 401, "Invalid or expired nonce",
                         <<logAccess(c.docId, "invalid_nonce", UNDEFINED, c.ip,
                                     [NoMeta EXCEPT !.nonce = c.nonce])>>)
                 ELSE LET c2 == [c1 EXCEPT
                                   !.nonceInfo = getNonceInfo(tbl, c.nonce),
                                   !.sessionId =
                                       sessionIdOf(getNonceInfo(tbl, c.nonce)),
                                   !.document = document]
                      IN  IF document = NoDocument \/ document.status # "active"
                          THEN Respond(c2, 404, "Document not found", << >>)
                          ELSE Respond(c2, 200, NULL, << >>)

\* GET /api/docs/[docId]/info.  `io` is what the database calls of the handler
\* (isNonceValid, getNonceInfo, getDocument, logAccess) do: "ok" or "throws",
\* which the handler's catch turns into a 500.  The rate limiter, which runs
\* first, is in memory.
InfoRequest(p, ip, docId, nonce, io) ==
    LET c == [Idle EXCEPT !.op = "info", !.ip = ip, !.docId = docId,
                          !.nonce = nonce,
                          !.rowBefore = getNonceInfo(nonces, nonce)]
        rl == checkRateLimit(rateLimitStore, cfg, ip, INFO, now)
        r == IF io = "throws"
             THEN Respond([c EXCEPT !.rateLimit = "allowed", !.failure = io],
                          500, "Internal server error", << >>)
             ELSE infoRoute(c, rl.result, nonces, documents)
    IN  /\ Free(p)
        /\ io = "throws" => rl.result.allowed
        /\ started < MaxRequests
        /\ started' = started + 1
        /\ rateLimitStore' = rl.store
        /\ accessLogs' = accessLogs \o r.logs
        /\ procs' = [procs EXCEPT ![p] = Track(r, nonces)]
        /\ UNCHANGED <<now, cfg, swept, nonces, documents, nextId, issued,
                       consumed, rlHist, rlLast, documentCache, loaded,
                       watermark,
                   rlInfo>>

\* The documents of the registry: d1 a two-page PDF open to all, d2 an image
\* behind a password.
Registry ==
    [d \in DocIds |->
        IF d = "d1"
        THEN [status |-> "active", contentType |-> "application/pdf", pages |-> 2,
              passwordHash |-> NULL, showSessionId |-> TRUE, showIp |-> TRUE]
        ELSE [status |-> "active", contentType |-> "image/png", pages |-> 1,
              passwordHash |-> Hash("secret"), showSessionId |-> TRUE,
              showIp |-> TRUE]]

Clients == {<<"a">>, <<"b">>}
PageNumbers == {1, 2}
Passwords == {NULL, "secret", "wrong"}
NonceHeaders == NonceArgs \cup {NULL}

Init ==
    /\ InitCommon
    /\ cfg = getRateLimitConfig
    /\ documents = Registry

PageRequests(headers) ==
    \E p \in Procs, ip \in Clients, docId \in DocIds, page \in PageNumbers,
       nonce \in headers : PageStart(p, ip, docId, page, nonce)

PageSteps ==
    \/ \E p \in Procs : PageUpdate(p)
    \/ \E p \in Procs, io \in {"ok", "missing", "throws", "logfails"} :
           PageFinish(p, io)

MintRequests(passwords) ==
    \E p \in Procs, ip \in Clients, docId \in DocIds, password \in passwords :
       MintRequest(p, ip, docId, password)

InfoRequests(headers) ==
    \E p \in Procs, ip \in Clients, docId \in DocIds, nonce \in headers,
       io \in {"ok", "throws"} : InfoRequest(p, ip, docId, nonce, io)

\* DELETE /api/admin/documents/[id] without `hard`: the soft delete,
\* UPDATE documents SET status = 'inactive'.
AdminDelete(docId) ==
    /\ docId \in DOMAIN documents
    /\ documents[docId].status = "active"
    /\ documents' = [documents EXCEPT ![docId].status = "inactive"]
    /\ UNCHANGED <<now, cfg, rateLimitStore, swept, nonces, accessLogs, nextId,
                   procs, started, issued, consumed, rlHist, rlLast,
                   documentCache, loaded, watermark,
                   rlInfo>>

\* The docId of the body of a mint request: a document of the registry, one
\* that is not there, or none.
MintDocIds == DocIds \cup {"d9", NULL}

\* The mint route alone, while an administrator deletes documents.
NextMint ==
    \/ \E p \in Procs, ip \in Clients, docId \in MintDocIds,
          password \in Passwords : MintRequest(p, ip, docId, password)
    \/ \E docId \in DocIds : AdminDelete(docId)

SpecMint == Init /\ [][NextMint]_vars

\* The viewer's protocol, mint then pages, of clients that know the password
\* and send a nonce with every page request.
NextPages ==
    \/ MintRequests({"secret"})
    \/ PageRequests(NonceArgs)
    \/ PageSteps

SpecPages == Init /\ [][NextPages]_vars

\* The nonces the mint route has handed out.
IssuedNonces == {d.nonce : d \in issued}

\* The viewer's protocol, of clients that present the nonces they were given,
\* while an administrator deletes documents.
NextAdmin ==
    \/ MintRequests({"secret"})
    \/ PageRequests(IssuedNonces)
    \/ PageSteps
    \/ \E docId \in DocIds : AdminDelete(docId)

SpecAdmin == Init /\ [][NextAdmin]_vars

\* The path of a page request: a document of the registry or one that is not
\* there, and page 0, its first page or a page beyond its last.
PathDocIds == DocIds \cup {"d9"}
PathPages == {0, 1, 3}

\* The viewer's protocol, of clients that present the nonces they were given
\* and ask for any page of any document, while an administrator deletes
\* documents.
NextServe ==
    \/ MintRequests({"secret"})
    \/ \E p \in Procs, ip \in Clients, docId \in PathDocIds, page \in PathPages,
          nonce \in IssuedNonces : PageStart(p, ip, docId, page, nonce)
    \/ PageSteps
    \/ \E docId \in DocIds : AdminDelete(docId)

SpecServe == Init /\ [][NextServe]_vars

\* A registry whose two documents are two-page PDFs, d1 open to all and d2
\* behind a password.
RegistryLocked ==
    [d \in DocIds |->
        [status |-> "active", contentType |-> "application/pdf", pages |-> 2,
         passwordHash |-> IF d = "d1" THEN NULL ELSE Hash("secret"),
         showSessionId |-> TRUE, showIp |-> TRUE]]

InitLocked ==
    /\ InitCommon
    /\ cfg = getRateLimitConfig
    /\ documents = RegistryLocked

\* The viewer's protocol over that registry; the clients that mint a nonce
\* for d2 know its password.
SpecLocked == InitLocked /\ [][NextPages]_vars

\* The state after one client was given a nonce for a document of the
\* registry: what POST /api/nonces/mint leaves behind.
InitMinted ==
    \E ip \in Clients, docId \in DocIds :
        LET m == mintNonce({}, 1, docId, 0)
        IN  /\ now = 0
            /\ cfg = getRateLimitConfig
            /\ documents = Registry
            /\ rateLimitStore =
                   checkRateLimit(<< >>, getRateLimitConfig, ip, MINT, 0).store
            /\ swept = FALSE
            /\ nonces = m.nonces
            /\ accessLogs = <<logAccess(docId, "nonce_mint", m.data.sessionId,
                                        ip, NoMeta)>>
            /\ nextId = 1
            /\ procs = [p \in Procs |-> Idle]
            /\ started = 0
            /\ issued = {m.data}
            /\ consumed = {}
            /\ rlHist = << >>
            /\ rlLast = NoCall
            /\ documentCache = << >>
            /\ loaded = {}
            /\ watermark = NoWatermark
            /\ rlInfo = NoInfoCall

\* The viewer after the mint: it asks for pages and for the document info
\* with the nonce it was given.
NextViewer ==
    \/ PageRequests(IssuedNonces)
    \/ PageSteps
    \/ InfoRequests(IssuedNonces)

SpecViewer == InitMinted /\ [][NextViewer]_vars

\* The three routes, with every request they accept.
Next ==
    \/ MintRequests(Passwords)
    \/ PageRequests(NonceHeaders)
    \/ PageSteps
    \/ InfoRequests(NonceHeaders)

Spec == Init /\ [][Next]_vars

----------------------------------------------------------------------------
(* Decrypted-document cache *)

\* The cache keeps at most MAX_ENTRIES entries before it makes space; the
\* code has 20, here 1.
MAX_ENTRIES == 1

\* "No buffer" where a Buffer is expected.
NoBuffer == [docId |-> NULL, load |-> 0]

\* "No entry" where a CacheEntry is expected (Map.get returned undefined).
NoCacheEntry == [docId |-> NULL, buffer |-> NoBuffer, lastAccessed |-> -1]

\* A faulty cacheGet, to test the properties: the first entry, whatever its key.
cacheGetFirst(cache, docId) ==
    IF cache = << >> THEN NoCacheEntry ELSE cache[1]

\* documentCache.get(docId)
cacheGet(cache, docId) ==
    IF \E i \in DOMAIN cache : cache[i].docId = docId
    THEN cache[CHOOSE i \in DOMAIN cache : cache[i].docId = docId]
    ELSE NoCacheEntry

\* documentCache.delete(docId)
cacheDelete(cache, docId) ==
    SelectSeq(cache, LAMBDA e : e.docId # docId)

\* documentCache.set(docId, entry): a key that is there keeps its place.
cacheSet(cache, docId, entry) ==
    IF \E i \in DOMAIN cache : cache[i].docId = docId
    THEN [i \in DOMAIN cache |-> IF cache[i].docId = docId THEN entry ELSE cache[i]]
    ELSE Append(cache, entry)

\* cleanupCache: over MAX_ENTRIES entries, the first of the entries with the
\* least lastAccessed is deleted, unless its key is falsy.
cleanupCache(cache) ==
    IF Len(cache) <= MAX_ENTRIES
    THEN cache
    ELSE LET oldest == CHOOSE i \in DOMAIN cache :
                           \A j \in DOMAIN cache :
                               \/ cache[i].lastAccessed < cache[j].lastAccessed
                               \/ cache[i].lastAccessed = cache[j].lastAccessed /\ i <= j
         IN  IF cache[oldest].docId \in {NULL, ""}
             THEN cache
             ELSE cacheDelete(cache, cache[oldest].docId)

\* What the loader of the pages route returns for docId: the decrypted file
\* of that document.  `n` numbers the loader calls.
loadPdfValues(docId, n) == [docId |-> docId, load |-> n]

\* getCachedDocument(docId, loader) up to `await loader()`.
CacheGet(p, docId) ==
    LET entry == cacheGet(documentCache, docId)
        call == [Idle EXCEPT !.op = "cache", !.docId = docId, !.at = now]
    IN  /\ Free(p)
        /\ started < MaxCacheCalls
        /\ started' = started + 1
        /\ IF entry # NoCacheEntry
           THEN /\ documentCache' =
                      cacheSet(documentCache, docId,
                               [entry EXCEPT !.lastAccessed = now])
                /\ procs' = [procs EXCEPT ![p] =
                       [call EXCEPT !.pc = "done", !.cache = "hit",
                                    !.ret = entry.buffer]]
           ELSE /\ documentCache' = documentCache
                /\ procs' = [procs EXCEPT ![p] =
                       [call EXCEPT !.pc = "loading", !.cache = "miss"]]
        /\ UNCHANGED <<now, cfg, rateLimitStore, swept, nonces, accessLogs,
                       documents, nextId, issued, consumed, rlHist, rlLast,
                       loaded, watermark,
                   rlInfo>>

\* getCachedDocument from the return of the loader to `return buffer`; when
\* the loader throws, the call rejects and the cache is left as it is.
CacheLoad(p, io) ==
    LET c == procs[p]
        buffer == loadPdfValues(c.docId, Cardinality(loaded) + 1)
    IN  /\ c.pc = "loading"
        /\ c.op = "cache"
        /\ IF io = "ok"
           THEN /\ loaded' = loaded \cup {buffer}
                /\ documentCache' =
                      cacheSet(cleanupCache(documentCache), c.docId,
                               [docId |-> c.docId, buffer |-> buffer,
                                lastAccessed |-> c.at])
                /\ procs' = [procs EXCEPT ![p] =
                       [c EXCEPT !.pc = "done", !.ret = buffer]]
           ELSE /\ UNCHANGED <<loaded, documentCache>>
                /\ procs' = [procs EXCEPT ![p] =
                       [c EXCEPT !.pc = "done", !.ret = NoBuffer,
                                 !.error = "Document file not found"]]
        /\ UNCHANGED <<now, cfg, rateLimitStore, swept, nonces, accessLogs,
                       documents, nextId, started, issued, consumed, rlHist,
                       rlLast, watermark,
                   rlInfo>>

\* invalidateCache(docId)
InvalidateCache(docId) ==
    /\ cacheGet(documentCache, docId) # NoCacheEntry
    /\ documentCache' = cacheDelete(documentCache, docId)
    /\ UNCHANGED <<now, cfg, rateLimitStore, swept, nonces, accessLogs,
                   documents, nextId, procs, started, issued, consumed, rlHist,
                   rlLast, loaded, watermark,
                   rlInfo>>

CacheDocIds == {"d1", "d2", "d3"}

\* Concurrent page requests at their call of getCachedDocument.
NextCache ==
    \/ \E p \in Procs, docId \in CacheDocIds : CacheGet(p, docId)
    \/ \E p \in Procs, io \in {"ok", "missing"} : CacheLoad(p, io)
    \/ \E docId \in CacheDocIds : InvalidateCache(docId)
    \/ now < MaxAge /\ Tick

SpecCache == Init /\ [][NextCache]_vars

\* What the callers of applyWatermark pass: an ip, the ISO timestamp, a
\* session id (a UUID), a request id, a custom text.
AnIp ==
    <<"1", "0", ".", "0", ".", "0", ".", "7">>
ATimestamp ==
    <<"2", "0", "2", "6", "-", "0", "1", "-", "0", "1", "T", "0",
      "0", ":", "0", "0", ":", "0", "0", ".", "0", "0", "0", "Z">>
ASessionId ==
    <<"3", "f", "2", "b", "8", "c", "1", "e", "-", "5", "a", "4",
      "d", "-", "4", "e", "6", "f", "-", "8", "a", "9", "b", "-",
      "0", "c", "1", "d", "2", "e", "3", "f", "4", "a", "5", "b">>
ARequestId ==
    <<"9", "e", "8", "d", "7", "c", "6", "b", "-", "7", "1">>
ACustomText ==
    <<"D", "R", "A", "F", "T">>

WatermarkInfos ==
    [ip         : {Absent, << >>, AnIp},
     timestamp  : {Absent, ATimestamp},
     sessionId  : {Absent, << >>, ASessionId},
     requestId  : {Absent, ARequestId},
     customText : {Absent, << >>, ACustomText}]

\* The watermarkPolicy of a document.
Policies ==
    [showIp : BOOLEAN, showTimestamp : BOOLEAN, showSessionId : BOOLEAN,
     customText : {Absent, << >>, ACustomText}]

\* The page images: a page rendered by renderPage, and the decrypted file of
\* an image document, which sharp can read or not (the upload checks the
\* declared MIME type only).
ImageBuffers ==
    {[data |-> "rendered", decodable |-> TRUE, watermarkText |-> << >>],
     [data |-> "uploaded", decodable |-> TRUE, watermarkText |-> << >>],
     [data |-> "uploaded", decodable |-> FALSE, watermarkText |-> << >>]}

\* A caller of applyWatermark(imageBuffer, info).
ApplyWatermark(imageBuffer, info) ==
    LET r == applyWatermark(imageBuffer, info)
    IN  /\ watermark' = [route  |-> FALSE,
                         policy |-> NoPolicy,
                         info   |-> info,
                         input  |-> imageBuffer,
                         thrown |-> r.thrown,
                         text   |-> r.text,
                         output |-> r.image]
        /\ UNCHANGED <<now, cfg, rateLimitStore, swept, nonces, accessLogs,
                       documents, nextId, procs, started, issued, consumed,
                       rlHist, rlLast, documentCache, loaded,
                   rlInfo>>

\* pages route, `// Apply watermark`: sessionId is the session of the nonce,
\* or undefined.
PageWatermark(policy, ip, sessionId, pageImage) ==
    LET info == watermarkInfo(policy, ip, ATimestamp, sessionId)
        r == applyWatermark(pageImage, info)
    IN  /\ watermark' = [route  |-> TRUE,
                         policy |-> policy,
                         info   |-> info,
                         input  |-> pageImage,
                         thrown |-> r.thrown,
                         text   |-> r.text,
                         output |-> r.image]
        /\ UNCHANGED <<now, cfg, rateLimitStore, swept, nonces, accessLogs,
                       documents, nextId, procs, started, issued, consumed,
                       rlHist, rlLast, documentCache, loaded,
                   rlInfo>>

NextWatermark ==
    \/ \E imageBuffer \in ImageBuffers, info \in WatermarkInfos :
           ApplyWatermark(imageBuffer, info)
    \/ \E policy \in Policies, sessionId \in {Absent, ASessionId},
          pageImage \in ImageBuffers :
           PageWatermark(policy, AnIp, sessionId, pageImage)

SpecWatermark == Init /\ [][NextWatermark]_vars

----------------------------------------------------------------------------
\* C4: a request for a page P > 1 is answered 200 only if the row of its nonce
\* was used when the request read it, a page-1 consume of that nonce having
\* completed before.
LaterPageNeedsConsumed ==
    \A p \in Procs :
        (procs[p].op = "page" /\ procs[p].page > 1 /\ procs[p].status = 200)
        => /\ procs[p].rowBefore # NoRow
           /\ procs[p].rowBefore.used
           /\ \E d \in DocIds : <<d, procs[p].nonce>> \in consumed

\* A page-2 request is answered 200 while the page-1 request that consumed
\* its nonce is still on its way.
LaterPageNeedsConsumedWitness ==
    \E p, q \in Procs :
        /\ procs[p].op = "page" /\ procs[p].page > 1 /\ procs[p].status = 200
        /\ procs[q].op = "page" /\ procs[q].page = 1
        /\ procs[q].nonce = procs[p].nonce
        /\ procs[q].pc = "document"

\* The page request of p got past the rate limiter with a nonce whose row
\* was there and unused when the request began.
SkipsAhead(p) ==
    /\ procs[p].op = "page" /\ procs[p].page > 1
    /\ procs[p].rateLimit = "allowed"
    /\ procs[p].rowBefore # NoRow /\ ~procs[p].rowBefore.used

\* C5: a request for a page P > 1 with an existing, unused nonce is answered
\* 400 "Must request page 1 first", carries no page, and has not changed the
\* table nonces.
SkipAheadRejected ==
    \A p \in Procs :
        SkipsAhead(p) =>
            /\ procs[p].pc = "done"
            /\ procs[p].status = 400
            /\ procs[p].error = "Must request page 1 first"
            /\ procs[p].image = NoImage
            /\ ~procs[p].touched

SkipAheadRejectedWitness ==
    \E p \in Procs :
        /\ SkipsAhead(p)
        /\ procs[p].status = 400
        /\ getNonceInfo(nonces, procs[p].nonce) = procs[p].rowBefore

\* C7: a page request the rate limiter denied is answered 429, has appended
\* one rate_limited entry to the access log, carries no page and has not
\* changed the table nonces.
RateLimitedPage ==
    \A p \in Procs :
        (procs[p].op = "page" /\ procs[p].rateLimit = "denied")
        => /\ procs[p].pc = "done"
           /\ procs[p].status = 429
           /\ procs[p].logged =
                  <<[docId |-> procs[p].docId, sessionId |-> NULL,
                     ip |-> procs[p].ip, action |-> "rate_limited",
                     metadata |-> NoMeta]>>
           /\ procs[p].image = NoImage
           /\ ~procs[p].touched

\* A denied page-1 request whose nonce is still there to be consumed.
RateLimitedPageWitness ==
    \E p \in Procs :
        /\ procs[p].op = "page" /\ procs[p].page = 1
        /\ procs[p].rateLimit = "denied" /\ procs[p].status = 429
        /\ isNonceValid(nonces, procs[p].docId, procs[p].nonce)

\* C8: every request the rate limiter denied, on whichever route, is answered
\* 429, has appended a rate_limited entry to the access log and has not
\* changed the table nonces.
EveryDenialLogged ==
    \A p \in Procs :
        procs[p].rateLimit = "denied"
        => /\ procs[p].status = 429
           /\ \E i \in DOMAIN procs[p].logged :
                  procs[p].logged[i].action = "rate_limited"
           /\ ~procs[p].touched

----------------------------------------------------------------------------
\* C9: with maxRequests = N >= 1, the j-th call for one key inside one window is
\* allowed with remaining N - j when j <= N, and denied with remaining 0 when
\* j > N.
RateLimitCeiling ==
    (rlLast # NoCall /\ cfg.maxRequests >= 1 /\ rlHist[rlLast.key].n > 0) =>
        LET j == rlHist[rlLast.key].n
            N == cfg.maxRequests
        IN  IF j <= N
            THEN rlLast.result.allowed /\ rlLast.result.remaining = N - j
            ELSE ~rlLast.result.allowed /\ rlLast.result.remaining = 0

\* C10: with maxRequests >= 1 every entry of the table has 1 <= count <=
\* maxRequests, and a denied checkRateLimit leaves the entry of its key as it
\* was.
CountWithinCeiling ==
    cfg.maxRequests >= 1 =>
        /\ \A k \in DOMAIN rateLimitStore :
               /\ 1 <= rateLimitStore[k].count
               /\ rateLimitStore[k].count <= cfg.maxRequests
        /\ (rlLast # NoCall /\ ~rlLast.result.allowed) =>
               rlLast.after = rlLast.before

CountWithinCeilingWitness ==
    /\ cfg.maxRequests >= 1
    /\ rlLast # NoCall /\ ~rlLast.result.allowed
    /\ rlLast.before.count = cfg.maxRequests
    /\ rlLast.after = rlLast.before

\* C11: a checkRateLimit call for one (client, endpoint) pair leaves the entry
\* of every other pair as it was, and with it the result a call for that other
\* pair would get.
KeyIndependence ==
    [][started' = started + 1 =>
        \A ip \in IPs, endpoint \in RLEndpoints :
            <<ip, endpoint>> # <<rlLast'.ip, rlLast'.endpoint>> =>
                /\ EntryOf(rateLimitStore', Key(ip, endpoint))
                       = EntryOf(rateLimitStore, Key(ip, endpoint))
                /\ checkRateLimit(rateLimitStore', cfg, ip, endpoint, now).result
                       = checkRateLimit(rateLimitStore, cfg, ip, endpoint, now).result
      ]_vars

\* The last call was denied, its bucket being exhausted, while another pair
\* that has an entry in the table is still allowed.
KeyIndependenceWitness ==
    /\ rlLast # NoCall /\ ~rlLast.result.allowed
    /\ cfg.maxRequests >= 2
    /\ \E ip \in IPs, endpoint \in RLEndpoints :
           /\ <<ip, endpoint>> # <<rlLast.ip, rlLast.endpoint>>
           /\ Key(ip, endpoint) \in DOMAIN rateLimitStore
           /\ checkRateLimit(rateLimitStore, cfg, ip, endpoint, now).result.allowed
           /\ checkRateLimit(rateLimitStore, cfg, ip, endpoint, now).result.remaining
                  = cfg.maxRequests - 2

\* C12: a checkRateLimit call that arrives later than windowStart + windowMs
\* of the entry of its key is allowed with remaining maxRequests - 1 and
\* replaces the entry by count 1, windowStart = now.
WindowReset ==
    [][started' = started + 1 =>
        ((rlLast'.before # NoEntry
            /\ now > rlLast'.before.windowStart + cfg.windowMs)
         => /\ rlLast'.result.allowed
            /\ rlLast'.result.remaining = cfg.maxRequests - 1
            /\ rlLast'.after = [count |-> 1, windowStart |-> now])
      ]_vars

\* The call found an entry at the ceiling, of a window that had elapsed.
WindowResetWitness ==
    /\ rlLast # NoCall /\ rlLast.before # NoEntry
    /\ cfg.maxRequests >= 1
    /\ rlLast.before.count = cfg.maxRequests
    /\ rlLast.after.windowStart > rlLast.before.windowStart + cfg.windowMs
    /\ rlLast.result.allowed
    /\ rlLast.after.count = 1

\* C13: with maxRequests >= 1, the calls of one key answered allowed inside
\* one window are never more than maxRequests.
NoLostUpdate ==
    cfg.maxRequests >= 1 =>
        \A k \in DOMAIN rlHist :
            rlHist[k].n > 0 => rlHist[k].allowed <= cfg.maxRequests

----------------------------------------------------------------------------
\* C14: a mint request is answered 200, 429, 400, 404 or 401; it has added a
\* row to the table nonces exactly when it is answered 200, and then the rate
\* limiter had allowed it, the document it found was active, and the document
\* had no password hash or the password of the request verifies against it.
\* No other step adds a row.
MintOnlyWhenAuthorized ==
    /\ [](\A p \in Procs :
            (procs[p].op = "mint" /\ procs[p].pc = "done") =>
                /\ procs[p].status \in {200, 429, 400, 404, 401}
                /\ procs[p].touched <=> procs[p].status = 200
                /\ procs[p].status = 200 =>
                       /\ procs[p].rateLimit = "allowed"
                       /\ procs[p].document.status = "active"
                       /\ \/ procs[p].document.passwordHash = NULL
                          \/ procs[p].document.passwordHash
                                 = Hash(procs[p].password))
    /\ [][nonces' # nonces =>
            \E p \in Procs :
                /\ procs'[p] # procs[p]
                /\ procs'[p].op = "mint" /\ procs'[p].status = 200
                /\ nonces' = nonces \cup
                       {getNonceInfo(nonces', procs'[p].data.nonce)}]_vars

\* A nonce was minted for the password-protected document, and a mint request
\* for a document that had been deleted was answered 404.
MintOnlyWhenAuthorizedWitness ==
    \E p, q \in Procs :
        /\ procs[p].op = "mint" /\ procs[p].status = 200
        /\ procs[p].document.passwordHash # NULL
        /\ procs[q].op = "mint" /\ procs[q].status = 404
        /\ procs[q].document.status = "inactive"
        /\ Cardinality(nonces) = 1

\* C15: a mint request with a wrong password for a password-protected document
\* is answered 401 and has appended exactly one entry, auth_fail, to the access
\* log; a mint request answered 200 has appended exactly one entry, nonce_mint,
\* with the session id of the nonce it minted.
MintLogging ==
    \A p \in Procs :
        (procs[p].op = "mint" /\ procs[p].pc = "done") =>
            /\ (/\ procs[p].rateLimit = "allowed"
                /\ procs[p].document.status = "active"
                /\ procs[p].document.passwordHash # NULL
                /\ procs[p].password # NULL
                /\ procs[p].document.passwordHash # Hash(procs[p].password))
               => /\ procs[p].status = 401
                  /\ procs[p].logged =
                         <<[docId |-> procs[p].docId, sessionId |-> NULL,
                            ip |-> procs[p].ip, action |-> "auth_fail",
                            metadata |-> NoMeta]>>
            /\ procs[p].status = 200
               => /\ procs[p].logged =
                         <<[docId |-> procs[p].docId,
                            sessionId |-> procs[p].data.sessionId,
                            ip |-> procs[p].ip, action |-> "nonce_mint",
                            metadata |-> NoMeta]>>
                  /\ procs[p].data \in issued
                  /\ getNonceInfo(nonces, procs[p].data.nonce).session_id
                         = procs[p].data.sessionId

MintLoggingWitness ==
    \E p, q \in Procs :
        /\ procs[p].op = "mint" /\ procs[p].status = 401
        /\ procs[p].password = "wrong"
        /\ Len(procs[p].logged) = 1
        /\ procs[q].op = "mint" /\ procs[q].status = 200
        /\ Len(procs[q].logged) = 1
        /\ Len(accessLogs) = 2

----------------------------------------------------------------------------
\* C1: two concurrent validateAndConsumeNonce calls on the same unused nonce
\* never both return a session id.
ConsumeAtMostOnce ==
    \A p, q \in Procs :
        (/\ p # q
         /\ procs[p].op = "consume" /\ procs[q].op = "consume"
         /\ procs[p].pc = "done" /\ procs[q].pc = "done"
         /\ procs[p].docId = procs[q].docId
         /\ procs[p].nonce = procs[q].nonce)
        => ~(procs[p].ret # NULL /\ procs[q].ret # NULL)

\* C2: a validateAndConsumeNonce(D, X) call that begins after a call with the
\* same (D, X) has returned a session id returns null.
SingleUse ==
    \A p \in Procs :
        (procs[p].op = "consume" /\ procs[p].later)
        => (procs[p].pc = "done" /\ procs[p].ret = NULL)

SingleUseWitness ==
    \E p \in Procs :
        /\ procs[p].op = "consume" /\ procs[p].later
        /\ procs[p].pc = "done" /\ procs[p].ret = NULL

\* The call of p names a nonce that mintNonce issued for another document.
ForeignNonce(p) ==
    \E d \in issued : d.nonce = procs[p].nonce /\ d.docId # procs[p].docId

\* C3: validateAndConsumeNonce(D1, X) with X minted for D2 # D1 returns null
\* without going on to the UPDATE and leaves the row of X as it was, and
\* isNonceValid(D1, X) is false.
DocBinding ==
    \A p \in Procs :
        ForeignNonce(p) =>
            /\ procs[p].op = "consume" =>
                   /\ procs[p].pc = "done"
                   /\ procs[p].ret = NULL
                   /\ procs[p].rowAfter = procs[p].rowBefore
            /\ procs[p].op = "isValid" => procs[p].ret = FALSE

DocBindingWitness ==
    \E p \in Procs :
        /\ ForeignNonce(p)
        /\ procs[p].op = "consume" /\ procs[p].pc = "done"
        /\ procs[p].ret = NULL
        /\ procs[p].rowBefore # NoRow /\ ~procs[p].rowBefore.used
        /\ procs[p].rowAfter = procs[p].rowBefore

\* C6: the session id of every nonce record is the one mintNonce assigned to
\* that nonce, and a record that is used is still used after every step that
\* keeps it.
NonceRecordStable ==
    /\ [](\A r \in nonces :
            \E d \in issued : d.nonce = r.nonce /\ d.sessionId = r.session_id)
    /\ [][\A r \in nonces : r.used =>
              \A r2 \in nonces' : r2.id = r.id => r2.used]_vars

NonceRecordStableWitness ==
    \E r \in nonces : r.used

----------------------------------------------------------------------------
\* What the pages route answers to the request of p when the nonce it presents
\* never existed.
UnknownNonceAnswer(p) ==
    pageStart([Idle EXCEPT !.op = "page", !.ip = procs[p].ip,
                           !.docId = procs[p].docId, !.page = procs[p].page,
                           !.nonce = "fake-nonce"],
              [allowed |-> TRUE], nonces).proc

\* C16: a page request that got past the rate limiter with a nonce minted for
\* another document, or a page-1 request with a nonce already consumed, is
\* answered as the same request with a nonce that never existed is: 401 with
\* the same error.
UniformRejection ==
    \A p \in Procs :
        (/\ procs[p].op = "page" /\ procs[p].rateLimit = "allowed"
         /\ ForeignNonce(p) \/ (procs[p].page = 1 /\ procs[p].later))
        => /\ procs[p].pc = "done"
           /\ procs[p].status = 401
           /\ procs[p].status = UnknownNonceAnswer(p).status
           /\ procs[p].error = UnknownNonceAnswer(p).error

\* C17: the row of a nonce that a page-1 request consumed stays used whatever
\* becomes of that request, and a page-1 request that begins after the consume
\* and gets past the rate limiter is answered 401 without a page.
NoRollback ==
    /\ \A r \in nonces : <<r.doc_id, r.nonce>> \in consumed => r.used
    /\ \A p \in Procs :
           (/\ procs[p].op = "page" /\ procs[p].page = 1
            /\ procs[p].later /\ procs[p].rateLimit = "allowed")
           => /\ procs[p].pc = "done"
              /\ procs[p].status = 401
              /\ procs[p].image = NoImage
              /\ ~procs[p].touched

\* The page-1 request of q consumed its nonce and was then answered 404, the
\* document having been deleted; the retry p with the same nonce got 401.
NoRollbackWitness ==
    \E p, q \in Procs :
        /\ procs[q].op = "page" /\ procs[q].page = 1
        /\ procs[q].pc = "done" /\ procs[q].status = 404
        /\ <<procs[q].docId, procs[q].nonce>> \in consumed
        /\ procs[q].touched
        /\ procs[p].op = "page" /\ procs[p].page = 1
        /\ procs[p].docId = procs[q].docId /\ procs[p].nonce = procs[q].nonce
        /\ procs[p].later /\ procs[p].status = 401
        /\ getNonceInfo(nonces, procs[p].nonce).used

\* The session id mintNonce assigned to the nonce the request of p presents.
BoundSession(p) ==
    (CHOOSE d \in issued : d.nonce = procs[p].nonce).sessionId

\* C18: a request for a page P > 1 answered 200 carries, in the watermark of
\* its page and in its page_request log entry, the session id assigned to its
\* nonce at mint time.
SessionContinuity ==
    \A p \in Procs :
        (procs[p].op = "page" /\ procs[p].page > 1 /\ procs[p].status = 200)
        => /\ procs[p].nonce \in IssuedNonces
           /\ procs[p].document.showSessionId =>
                  procs[p].image.sessionId = BoundSession(p)
           /\ \E i \in DOMAIN procs[p].logged :
                  /\ procs[p].logged[i].action = "page_request"
                  /\ procs[p].logged[i].sessionId = BoundSession(p)

\* C19: a page request answered 200 has appended to the access log a
\* page_request entry for its document with its page number and the session id
\* bound to its nonce; no page is released without that entry in the log.
PageLogged ==
    \A p \in Procs :
        (procs[p].op = "page" /\ procs[p].status = 200)
        => /\ procs[p].nonce \in IssuedNonces
           /\ procs[p].logged =
                  <<[docId |-> procs[p].docId, sessionId |-> BoundSession(p),
                     ip |-> procs[p].ip, action |-> "page_request",
                     metadata |-> [NoMeta EXCEPT !.page = procs[p].page]]>>
           /\ \E i \in DOMAIN accessLogs : accessLogs[i] = procs[p].logged[1]

\* The request of p, for a page P > 1, got past the rate limiter with a nonce
\* of its document that had been consumed.
InSession(p) ==
    /\ procs[p].op = "page" /\ procs[p].page > 1
    /\ procs[p].rateLimit = "allowed"
    /\ procs[p].rowBefore # NoRow /\ procs[p].rowBefore.used
    /\ procs[p].rowBefore.doc_id = procs[p].docId

----------------------------------------------------------------------------
\* The number of pages a document has for the pages route: 1 for an image,
\* the page count of the file for a PDF.
TotalPagesOf(document) ==
    IF document.contentType \in imageTypes THEN 1 ELSE document.pages

\* A page request that reached the page-count check: its document was found
\* active and, for a PDF, the file was loaded and counted.
ReachedPageCount(p) ==
    /\ procs[p].op = "page"
    /\ procs[p].pc = "done"
    /\ procs[p].document # NoDocument
    /\ procs[p].document.status = "active"
    /\ procs[p].failure \notin {"missing", "throws"}

\* C21: a page request is answered 200 only if 1 <= P <= totalPages, where
\* totalPages is 1 for an image and the page count of the file for a PDF; a
\* request with P > totalPages that reached the page-count check is answered
\* 404, carries no image and appended no access-log entry.
PageBound ==
    \A p \in Procs :
        /\ procs[p].op = "page" /\ procs[p].status = 200 =>
               /\ 1 <= procs[p].page
               /\ procs[p].page <= TotalPagesOf(procs[p].document)
        /\ ReachedPageCount(p) /\ procs[p].page > TotalPagesOf(procs[p].document) =>
               /\ procs[p].status = 404
               /\ procs[p].image = NoImage
               /\ procs[p].logged = << >>

\* A request for page 3 of the two-page PDF, with a consumed nonce, was
\* answered 404.
PageBoundWitness ==
    \E p \in Procs :
        /\ ReachedPageCount(p)
        /\ procs[p].document.contentType = "application/pdf"
        /\ procs[p].page > procs[p].document.pages
        /\ procs[p].nonceInfo.used
        /\ procs[p].status = 404

\* C22: the step of a page request that looks the document up answers 200
\* only if the lookup finds the document with status active; when the lookup
\* finds no document or an inactive one, the step answers 404 with no image
\* and appends nothing to the access log.
ActiveDocumentOnly ==
    [][\A p \in Procs :
          procs[p].op = "page" /\ procs[p].pc = "document" /\ procs'[p].pc = "done" =>
              LET document == getDocument(documents, procs[p].docId)
                  active == document # NoDocument /\ document.status = "active"
              IN  /\ procs'[p].status = 200 => active
                  /\ ~active => /\ procs'[p].status = 404
                                 /\ procs'[p].image = NoImage
                                 /\ accessLogs' = accessLogs]_vars

\* One request was answered 404 for a document that is not in the registry,
\* and a page-1 request that consumed its nonce was answered 404 because the
\* document had been deleted meanwhile.
ActiveDocumentOnlyWitness ==
    \E p, q \in Procs :
        /\ procs[p].op = "page" /\ procs[p].pc = "done"
        /\ procs[p].docId \notin DOMAIN documents
        /\ procs[p].nonceInfo.used
        /\ procs[p].status = 404
        /\ procs[q].op = "page" /\ procs[q].pc = "done"
        /\ procs[q].page = 1
        /\ procs[q].touched
        /\ procs[q].document.status = "inactive"
        /\ procs[q].status = 404
        /\ procs[q].image = NoImage
        /\ procs[q].logged = << >>

\* C23: a page request during which the stored file was missing, or reading,
\* decrypting or rendering it threw, is answered 500, carries no image and
\* appended no page_request entry to the access log.
NoPartialOutput ==
    \A p \in Procs :
        procs[p].op = "page" /\ procs[p].failure \in {"missing", "throws"} =>
            /\ procs[p].status = 500
            /\ procs[p].image = NoImage
            /\ \A i \in DOMAIN procs[p].logged :
                   procs[p].logged[i].action # "page_request"

\* A page-1 request consumed its nonce, rendering threw, and the request was
\* answered 500.
NoPartialOutputWitness ==
    \E p \in Procs :
        /\ procs[p].op = "page"
        /\ procs[p].page = 1
        /\ procs[p].touched
        /\ procs[p].failure = "throws"
        /\ procs[p].status = 500
        /\ procs[p].error = "Internal server error"

----------------------------------------------------------------------------
\* C24: isNonceValid(docId, nonce) returns true exactly when the table holds
\* a row with that docId and that nonce and used = 0; it is false when a
\* consume of (docId, nonce) had returned a session before the call; and the
\* call changes no row of the table.
IsNonceValidReadOnly ==
    /\ [](\A p \in Procs :
            procs[p].op = "isValid" =>
                /\ procs[p].ret =
                       (/\ procs[p].rowBefore # NoRow
                        /\ procs[p].rowBefore.doc_id = procs[p].docId
                        /\ ~procs[p].rowBefore.used)
                /\ procs[p].later => procs[p].ret = FALSE)
    /\ [][\A p \in Procs :
             procs'[p].op = "isValid" /\ procs'[p] # procs[p] => nonces' = nonces]_vars

\* isNonceValid was called for a nonce after its consume, and returned false.
IsNonceValidReadOnlyWitness ==
    \E p \in Procs :
        /\ procs[p].op = "isValid"
        /\ procs[p].later
        /\ procs[p].rowBefore.used
        /\ procs[p].rowBefore.doc_id = procs[p].docId
        /\ procs[p].ret = FALSE

\* C25: a validateAndConsumeNonce(docId, nonce) that returns a session
\* returns the sessionId mintNonce returned with that nonce for that document;
\* a getNonceInfo(nonce) that finds the row reports that same session id and
\* document id, whether the nonce is consumed or not, and changes no row.
SessionRoundTrip ==
    /\ [](\A p \in Procs :
            /\ procs[p].op = "consume" /\ procs[p].pc = "done" /\ procs[p].ret # NULL =>
                   \E d \in issued : /\ d.nonce = procs[p].nonce
                                      /\ d.docId = procs[p].docId
                                      /\ d.sessionId = procs[p].ret
            /\ procs[p].op = "getInfo" /\ procs[p].nonceInfo # NoRow =>
                   \E d \in issued : /\ d.nonce = procs[p].nonce
                                      /\ d.docId = procs[p].nonceInfo.doc_id
                                      /\ d.sessionId = procs[p].nonceInfo.session_id)
    /\ [][\A p \in Procs :
             procs'[p].op = "getInfo" /\ procs'[p] # procs[p] => nonces' = nonces]_vars

\* A consume returned the session of a nonce, and a getNonceInfo after it
\* found the row used, with that session.
SessionRoundTripWitness ==
    \E p, q \in Procs :
        /\ procs[p].op = "consume" /\ procs[p].pc = "done"
        /\ procs[p].ret # NULL
        /\ procs[q].op = "getInfo"
        /\ procs[q].nonce = procs[p].nonce
        /\ procs[q].nonceInfo.used
        /\ procs[q].nonceInfo.session_id = procs[p].ret
        /\ Cardinality(issued) = 2

----------------------------------------------------------------------------
\* C27: resetRateLimit(ip, endpoint) leaves no entry for that pair, and
\* resetRateLimit(ip) leaves no entry for any endpoint of that ip; the next
\* checkRateLimit for a pair whose entry was removed so is answered allowed with
\* remaining = maxRequests - 1.
ResetAllowsAgain ==
    /\ [](rlLast.afterReset =>
            /\ rlLast.result.allowed
            /\ rlLast.result.remaining = cfg.maxRequests - 1
            /\ rlLast.before = NoEntry)
    /\ [][\A ip \in ResetClients, endpoint \in RLEndpoints \cup {UNDEFINED} :
             RLReset(ip, endpoint) =>
                 \A e \in (IF endpoint = UNDEFINED THEN RLEndpoints ELSE {endpoint}) :
                     Key(ip, e) \notin DOMAIN rateLimitStore']_vars

\* A pair had used its whole ceiling in a window, was reset by
\* resetRateLimit(ip), and its next call, still inside that window, was allowed.
ResetAllowsAgainWitness ==
    /\ rlLast.afterReset
    /\ cfg.maxRequests >= 1
    /\ rlHist[rlLast.key].allowed = cfg.maxRequests + 1
    /\ rlLast.result.allowed
    /\ rlLast.result.remaining = cfg.maxRequests - 1

----------------------------------------------------------------------------
\* C28: the buffer a getCachedDocument(docId, loader) call returns, on a hit
\* or on a miss, before or after evictions, is a buffer that a loader call for
\* that same docId returned; and every entry of the cache holds under its key
\* a buffer loaded for that key.
CacheTransparent ==
    /\ \A p \in Procs :
           procs[p].op = "cache" /\ procs[p].pc = "done" /\ procs[p].error = NULL =>
               /\ procs[p].ret \in loaded
               /\ procs[p].ret.docId = procs[p].docId
    /\ \A i \in DOMAIN documentCache :
           /\ documentCache[i].buffer \in loaded
           /\ documentCache[i].buffer.docId = documentCache[i].docId

\* After three documents were loaded and one of them was evicted, a call for
\* a document still in the cache was a hit and returned that document's
\* buffer.
CacheTransparentWitness ==
    \E p \in Procs :
        /\ procs[p].op = "cache" /\ procs[p].pc = "done"
        /\ procs[p].cache = "hit"
        /\ procs[p].ret.docId = procs[p].docId
        /\ {b.docId : b \in loaded} = CacheDocIds
        /\ \E b \in loaded : cacheGet(documentCache, b.docId) = NoCacheEntry

----------------------------------------------------------------------------
\* Occurrences of a string in a text.
Occurs(text, sub, i) ==
    /\ i + Len(sub) - 1 <= Len(text)
    /\ SubSeq(text, i, i + Len(sub) - 1) = sub

Contains(text, sub) == \E i \in 1..Len(text) : Occurs(text, sub, i)

Count(text, sub) == Cardinality({i \in 1..Len(text) : Occurs(text, sub, i)})

Pos(text, sub) ==
    CHOOSE i \in 1..Len(text) :
        Occurs(text, sub, i) /\ \A j \in 1..(i - 1) : ~Occurs(text, sub, j)

RECURSIVE TotalLen(_)
TotalLen(parts) ==
    IF parts = << >> THEN 0 ELSE Len(parts[1]) + TotalLen(Tail(parts))

\* The fields of a WatermarkInfo that are present, in the order IP, time,
\* session, request id, custom text, each as it is to be shown.
ShownFields(info) ==
    SelectSeq(<<IF Truthy(info.ip) THEN IpLabel \o info.ip ELSE Absent,
                IF Truthy(info.timestamp) THEN TimeLabel \o info.timestamp ELSE Absent,
                IF Truthy(info.sessionId)
                THEN SessionLabel \o SubSeq(info.sessionId, 1, 8) ELSE Absent,
                IF Truthy(info.requestId)
                THEN ReqLabel \o SubSeq(info.requestId, 1, 8) ELSE Absent,
                IF Truthy(info.customText) THEN info.customText ELSE Absent>>,
              LAMBDA part : part # Absent)

\* C29: the text generateWatermarkText gives holds every field that is
\* present, in the order IP, time, session, request id, custom text, one
\* ' | ' between two neighbours and nothing else: no label of an absent
\* field, no separator at either end; and a session id is shown by its first
\* 8 characters, never in full.
WatermarkTextFields ==
    ~watermark.thrown /\ watermark # NoWatermark =>
        LET info == watermark.info
            text == watermark.text
            parts == ShownFields(info)
            n == Len(parts)
        IN  /\ \A i \in 1..n : Contains(text, parts[i])
            /\ \A i, j \in 1..n :
                   i < j => Pos(text, parts[i]) + Len(parts[i]) <= Pos(text, parts[j])
            /\ Count(text, Separator) = (IF n = 0 THEN 0 ELSE n - 1)
            /\ Len(text) = TotalLen(parts) + 3 * (IF n = 0 THEN 0 ELSE n - 1)
            /\ ~Truthy(info.ip) => ~Contains(text, IpLabel)
            /\ ~Truthy(info.timestamp) => ~Contains(text, TimeLabel)
            /\ ~Truthy(info.sessionId) => ~Contains(text, SessionLabel)
            /\ ~Truthy(info.requestId) => ~Contains(text, ReqLabel)
            /\ Truthy(info.sessionId) =>
                   /\ ~Contains(text, info.sessionId)
                   /\ Contains(text, SessionLabel \o SubSeq(info.sessionId, 1, 8))

\* The text of a call with an ip, a session id and a custom text, and
\* without a timestamp: three parts, two separators.
WatermarkTextFieldsWitness ==
    /\ ~watermark.thrown
    /\ watermark.info.ip = AnIp
    /\ watermark.info.timestamp = Absent
    /\ watermark.info.sessionId = ASessionId
    /\ watermark.info.requestId = Absent
    /\ watermark.info.customText = ACustomText
    /\ watermark.text =
           IpLabel \o AnIp \o Separator \o SessionLabel \o SubSeq(ASessionId, 1, 8)
               \o Separator \o ACustomText

\* C30: when the policy of the document has showIp, showTimestamp and
\* showSessionId false and no custom text, the applyWatermark of the pages
\* route returns its input image unchanged.
WatermarkOmission ==
    /\ watermark.route
    /\ ~watermark.policy.showIp
    /\ ~watermark.policy.showTimestamp
    /\ ~watermark.policy.showSessionId
    /\ ~Truthy(watermark.policy.customText)
    => /\ ~watermark.thrown
       /\ watermark.output = watermark.input

----------------------------------------------------------------------------
\* C31: a page request for document D, for any page number, is answered 200
\* only if the nonce it presents was minted for D.
DocBindingAllPages ==
    \A p \in Procs :
        procs[p].op = "page" /\ procs[p].status = 200 =>
            \E d \in issued : d.nonce = procs[p].nonce /\ d.docId = procs[p].docId

\* C32: a page request for a document that carries a password hash is
\* answered 200 only if the nonce it presents is one the mint route issued for
\* that document, which it does only after the password of the mint request
\* verified against the hash.
PasswordGate ==
    \A p \in Procs :
        /\ procs[p].op = "page"
        /\ procs[p].status = 200
        /\ procs[p].document.passwordHash # NULL
        => \E d \in issued :
               /\ d.nonce = procs[p].nonce
               /\ d.docId = procs[p].docId

----------------------------------------------------------------------------
\* C33: a checkRateLimit call that arrives at exactly windowStart + windowMs
\* of the entry of its key is outside the window of that entry: it is
\* answered allowed and leaves the entry with count 1 and windowStart = now.
WindowHalfOpen ==
    [][/\ started' = started + 1
       /\ rlLast'.before # NoEntry
       /\ now = rlLast'.before.windowStart + cfg.windowMs
       => /\ rlLast'.result.allowed
          /\ rlLast'.after = [count |-> 1, windowStart |-> now]]_vars

\* C34: whatever maxRequests >= 0 is, checkRateLimit returns a remaining that
\* is not negative, and a call answered allowed leaves the count of its
\* window at maxRequests or below.
RemainingNotNegative ==
    rlLast # NoCall =>
        /\ rlLast.result.remaining >= 0
        /\ rlLast.result.allowed => rlLast.after.count <= cfg.maxRequests

\* C35: the cleanup timer removes only entries whose window has elapsed under
\* the windowMs in use, that is, entries checkRateLimit itself would replace.
SweepOnlyElapsed ==
    [][~swept /\ swept' =>
          \A k \in DOMAIN rateLimitStore \ DOMAIN rateLimitStore' :
              rateLimitStore[k].windowStart < now - cfg.windowMs]_vars

\* C36: getRateLimitInfo agrees with checkRateLimit: it answers null exactly
\* when a checkRateLimit made at the same moment with the same key and
\* configuration would open a fresh window; otherwise its remaining is
\* maxRequests - count and its allowed is the allowed of that checkRateLimit.
NextCheck ==
    checkRateLimit(IF rlInfo.entry = NoEntry THEN << >>
                   ELSE Put(<< >>, rlInfo.key, rlInfo.entry),
                   cfg, rlInfo.ip, rlInfo.endpoint, rlInfo.at)

OpensWindow ==
    /\ NextCheck.result.allowed
    /\ NextCheck.store[rlInfo.key] = [count |-> 1, windowStart |-> rlInfo.at]

InfoAgreesWithCheck ==
    rlInfo # NoInfoCall =>
        /\ rlInfo.result = NoInfo <=> OpensWindow
        /\ rlInfo.result # NoInfo =>
               /\ rlInfo.result.remaining = cfg.maxRequests - rlInfo.entry.count
               /\ rlInfo.result.allowed <=> NextCheck.result.allowed

\* C37: resetRateLimit(ip) and resetRateLimit(ip, endpoint) leave the entries
\* of every other client unchanged, also of a client whose address contains
\* ':' or begins with ip.
ResetFrame ==
    [][\A ip \in ResetClients, endpoint \in RLEndpoints \cup {UNDEFINED} :
           RLReset(ip, endpoint) =>
               \A other \in ResetClients \ {ip}, e \in RLEndpoints :
                   EntryOf(rateLimitStore', Key(other, e))
                       = EntryOf(rateLimitStore, Key(other, e))]_vars

\* C38: the rate-limit check is the first step of every page request: a page
\* request that has been answered, whatever its page parameter, has been
\* counted against the bucket of the pages route or denied by it.
RateLimitFirst ==
    \A p \in Procs :
        procs[p].op = "page" /\ procs[p].status # 0 =>
            procs[p].rateLimit \in {"allowed", "denied"}

\* C39 as stated: an info request whose nonce had been consumed by page 1
\* when it arrived is answered 401 (no database call throwing).
InfoAfterConsume401 ==
    \A p \in Procs :
        /\ procs[p].op = "info" /\ procs[p].status # 0
        /\ procs[p].failure = "none"
        /\ procs[p].rowBefore # NoRow /\ procs[p].rowBefore.used
        => procs[p].status = 401

\* C39: a document-info request leaves the table nonces as it was; it is
\* answered 200 only if the row of its nonce was unused and of the requested
\* docId when the request arrived; and a request whose nonce had been
\* consumed by page 1 is answered 401 once it is past the rate limiter and
\* unless a database call throws (429 and 500 otherwise).
InfoReadOnly ==
    /\ [](\A p \in Procs :
            procs[p].op = "info" /\ procs[p].status # 0 =>
                /\ procs[p].status = 200 =>
                       /\ procs[p].rowBefore # NoRow
                       /\ ~procs[p].rowBefore.used
                       /\ procs[p].rowBefore.doc_id = procs[p].docId
                /\ procs[p].rowBefore # NoRow /\ procs[p].rowBefore.used =>
                       /\ procs[p].status \in {401, 429, 500}
                       /\ procs[p].status = 429 <=> procs[p].rateLimit = "denied"
                       /\ procs[p].status = 500 <=> procs[p].failure = "throws")
    /\ [][(\E p \in Procs : procs'[p] # procs[p] /\ procs'[p].op = "info")
              => nonces' = nonces]_vars

\* An info request was answered 200 with a nonce, page 1 then consumed the
\* nonce, and an info request with the same nonce for the same document was
\* answered 401.
InfoReadOnlyWitness ==
    \E p, q \in Procs :
        /\ procs[p].op = "info" /\ procs[p].status = 200
        /\ procs[q].op = "info" /\ procs[q].status = 401
        /\ procs[q].nonce = procs[p].nonce /\ procs[q].docId = procs[p].docId
        /\ procs[q].rowBefore.used
        /\ <<procs[q].docId, procs[q].nonce>> \in consumed

\* The entries a step of getCachedDocument removes from the cache.
Evicted ==
    {i \in DOMAIN documentCache :
        /\ \E p \in Procs : procs[p].pc = "loading" /\ procs'[p].pc = "done"
        /\ cacheGet(documentCache', documentCache[i].docId) = NoCacheEntry}

\* C40: the cache never holds more than MAX_ENTRIES entries, and an entry
\* that getCachedDocument evicts has the least lastAccessed of the cache.
CacheBounded ==
    /\ [](Len(documentCache) <= MAX_ENTRIES)
    /\ [][\A i \in Evicted : \A j \in DOMAIN documentCache :
              documentCache[i].lastAccessed <= documentCache[j].lastAccessed]_vars

====
